---- MODULE Spec2Model ----
(***************************************************************************)
(* Episode state machine of the Quadrotor environment                      *)
(* (safe_control_gym/envs/gym_pybullet_drones/quadrotor.py):               *)
(* reset(), step(), _get_info(), _get_done() and _get_reward().            *)
(*                                                                         *)
(* The physics engine is an external collaborator.  What it answers to     *)
(* the queries the code makes (contact points, the ray test through the    *)
(* gate, the distance to the goal, the state against the state-space       *)
(* bounds) is an input of every reset and step.  A query the code does not *)
(* make in a call has no answer in that call (<<>> or "na").               *)
(*                                                                         *)
(* A Python exception ends the call where it is raised: the assignments    *)
(* made before it stay, the rest of the method does not run.  `raised`     *)
(* holds the exception of the last call ("none" when it returned); an      *)
(* episode is what follows a reset that returned, up to the next reset or  *)
(* the first call that raises.                                             *)
(***************************************************************************)
EXTENDS Integers, Sequences, FiniteSets, TLC

\* ---- bounds of the model ------------------------------------------------
\* Largest number of gates of a course (len(self.GATES)).
MaxGates == 2
\* Control steps taken in one episode (the counter is capped here).
MaxSteps == 5
\* Rows of X_GOAL in a trajectory-tracking task (X_GOAL.shape[0]).
GoalLen == 3
\* Control frequency and physics frequency (constructor configuration).
CTRL_FREQ == 1
PYB_FREQ == 2

\* ---- program constants --------------------------------------------------
\* Rays cast through the gate aperture: the centre ray and 2 * 3 others.
NumRays == 7

VARIABLES
    \* configuration, fixed by __init__
    QUAD_TYPE,              \* 1, 2, 3: QuadType.ONE_D, TWO_D, THREE_D
    TASK,                   \* "STABILIZATION" | "TRAJ_TRACKING"
    COST,                   \* "RL_REWARD" | "QUADRATIC" | "COMPETITION"
    NUM_GATES,              \* len(self.GATES)
    n_obstacles,            \* len(self.OBSTACLES)
    done_on_out_of_bound,
    DONE_ON_COLLISION,
    DONE_ON_COMPLETION,
    RANDOMIZED_INERTIAL_PROP,
    RANDOMIZED_INIT,
    NORMALIZED_RL_ACTION_SPACE,
    VERBOSE,
    norm_act_scale,
    hover_thrust,           \* GRAVITY_ACC * MASS / action_dim of the mass configured
    rew_state_weight,       \* length of the weight vectors (np.array(..., ndmin=1))
    rew_act_weight,
    info_mse_metric_state_weight,
    rew_exponential,
    init_state,             \* the init_state argument: [kind, len]
    TASK_INFO,              \* [stabilization_goal |-> the target position, a tuple]
    MASS,                   \* nominal mass
    J,                      \* nominal inertia diagonal <<Ixx, Iyy, Izz>>
    X_GOAL,                 \* [rows |-> 0]: one goal state; rows > 0: a goal per control step
    U_GOAL,                 \* goal input, MASS * GRAVITY_ACC / action_dim per actuator
    \* episode state (attributes of self)
    current_gate,
    stepped_through_gate,
    currently_collided,
    at_goal_pos,
    steps_at_goal_pos,
    task_completed,
    pyb_step_counter,
    ctrl_step_counter,
    cnstr_violation,
    OVERRIDDEN_QUAD_MASS,   \* 0: not assigned yet
    OVERRIDDEN_QUAD_INERTIA,
    \* the physics engine
    pyb_dynamics,           \* [mass, inertia] of the last p.changeDynamics, 0s: none yet
    pyb_base,               \* the pose and velocity of the vehicle as reset last set
                            \* them (see reset_init_state)
    \* what the physics engine answered in the last call
    contact,                \* the bodies p.getContactPoints returned a contact for
    rays,                   \* p.rayTestBatch: hit (r[2] < 0.9999) per ray, <<>> if not cast
    goal_dist,              \* "within" | "outside" the goal tolerance, "na" if not compared
    state_oob,              \* indices (1-based) of self.state outside state_space
    state_err,              \* sum of the squares of state - goal state
    act_err,                \* sum of the squares of action - U_GOAL
    \* the last call and what it returned
    op,                     \* "init" | "reset" | "step"
    kwargs,                 \* initial_target_gate_id of the call if it is a reset that
                            \* was given one, as <<id>>; << >> otherwise
    prior,                  \* the episode attributes a reset found (see Prior)
    info,                   \* the keys of the info dictionary the call returned
    collision,              \* info["collision"]
    raised,                 \* "none" or the exception the last call raised
    rew,                    \* reward returned by the last step, with rew_form
    rew_form,               \* "int": the reward is rew; "exp": it is e^rew, a float
                            \* strictly between 0 and 1; "None": None was returned
    done,                   \* done returned by the last step
    rew_wp_idx,             \* row of X_GOAL _get_reward used (-1: X_GOAL is one state)
    mse_wp_idx,             \* row of X_GOAL _get_info used for info["mse"]
    \* the last call of _preprocess_control
    action,                 \* its argument, a tuple of action_dim numbers (<<>>: no call)
    current_preprocessed_action,
    warning,                \* logger.warning was called
    \* the last evaluation of an expression of self.symbolic
    sym_args,               \* the values given for its symbols (<<>>: no evaluation)
    sym_value,              \* the value of the expression
    \* attributes of the class Quadrotor, shared by every instance
    INERTIAL_PROP_RAND_INFO,    \* the keys of the dictionary
    INIT_STATE_RAND_INFO,       \* the keys of the dictionary
    \* two further environments of the same configuration and seed
    seed,                   \* the seed both are constructed with
    twins                   \* per environment: constructed or not, the position of
                            \* its np_random in its stream, the draws of its resets

cfgVars == <<QUAD_TYPE, TASK, COST, NUM_GATES, n_obstacles,
             done_on_out_of_bound, DONE_ON_COLLISION, DONE_ON_COMPLETION,
             RANDOMIZED_INERTIAL_PROP, RANDOMIZED_INIT, NORMALIZED_RL_ACTION_SPACE,
             VERBOSE, norm_act_scale, hover_thrust, rew_state_weight, rew_act_weight,
             info_mse_metric_state_weight, rew_exponential, init_state, TASK_INFO>>
goalVars == <<MASS, J, X_GOAL, U_GOAL>>
selfVars == <<current_gate, stepped_through_gate, currently_collided, at_goal_pos,
              steps_at_goal_pos, task_completed, pyb_step_counter, ctrl_step_counter,
              cnstr_violation, OVERRIDDEN_QUAD_MASS, OVERRIDDEN_QUAD_INERTIA>>
physVars == <<pyb_dynamics, pyb_base, contact, rays, goal_dist, state_oob, state_err, act_err>>
callVars == <<op, kwargs, prior, info, collision, raised, rew, rew_form, done,
              rew_wp_idx, mse_wp_idx>>
classVars == <<INERTIAL_PROP_RAND_INFO, INIT_STATE_RAND_INFO>>
twinVars == <<seed, twins>>
ctlVars == <<action, current_preprocessed_action, warning>>
symVars == <<sym_args, sym_value>>
vars == <<cfgVars, goalVars, selfVars, physVars, callVars, classVars, twinVars, ctlVars,
          symVars>>

\* ---- helpers --------------------------------------------------------------
Min(a, b) == IF a < b THEN a ELSE b

\* Length of the state and of the action of each fidelity level.
state_dim(q) == CASE q = 1 -> 2 [] q = 2 -> 6 [] q = 3 -> 12

action_dim(q) == CASE q = 1 -> 1 [] q = 2 -> 2 [] q = 3 -> 4

\* Physics steps per control step (BaseAviary: int(PYB_FREQ / CTRL_FREQ)).
PYB_STEPS_PER_CTRL == PYB_FREQ \div CTRL_FREQ

\* What the ray test can answer: no ray hit, only the last ray hit, all hit.
RayChoices == { [i \in 1..NumRays |-> FALSE],
                [i \in 1..NumRays |-> i = NumRays],
                [i \in 1..NumRays |-> TRUE] }

\* Which components of the state can be outside the state-space bounds:
\* none, the first position, the first velocity.
OobChoices == { {}, {1}, {2} }

\* The values of initial_target_gate_id a caller may pass to reset.
ResetKwargs == { <<>> } \cup { <<i>> : i \in (0 - MaxGates)..MaxGates }

\* ---- the bodies of the course --------------------------------------------
\* self.GATES_IDS + self.OBSTACLES_IDS + [self.PLANE_ID]: its length and its
\* i-th entry.
n_bodies == NUM_GATES + n_obstacles + 1

body_at(i) ==
    IF i <= NUM_GATES
    THEN <<"gate", i>>
    ELSE IF i <= NUM_GATES + n_obstacles
         THEN <<"obstacle", i - NUM_GATES>>
         ELSE <<"plane", 0>>

\* info["collision"] when no body has a contact: (None, False).
NoCollision == << <<"None", 0>>, FALSE >>

\* The sets of bodies the engine can report a contact for: none; the last
\* obstacle and the plane; the last gate, the last obstacle and the plane.
ContactChoices ==
    { {} }
    \cup (IF n_obstacles > 0
          THEN { {<<"obstacle", n_obstacles>>, <<"plane", 0>>} }
          ELSE { {<<"plane", 0>>} })
    \cup (IF n_obstacles > 0 /\ NUM_GATES > 0
          THEN { {<<"gate", NUM_GATES>>, <<"obstacle", n_obstacles>>, <<"plane", 0>>} }
          ELSE {})

\* ---- self: the attributes a call reads and writes ---------------------------
\* A call is computed on a record of the attributes, field exc the exception
\* raised so far ("none": still running).  Every stage below is skipped once an
\* exception is raised.
Self == [ current_gate         |-> current_gate,
          stepped_through_gate |-> stepped_through_gate,
          currently_collided   |-> currently_collided,
          at_goal_pos          |-> at_goal_pos,
          steps_at_goal_pos    |-> steps_at_goal_pos,
          task_completed       |-> task_completed,
          pyb_step_counter     |-> pyb_step_counter,
          ctrl_step_counter    |-> ctrl_step_counter,
          MASS                 |-> MASS,
          J                    |-> J,
          X_GOAL               |-> X_GOAL,
          U_GOAL               |-> U_GOAL,
          OVERRIDDEN_QUAD_MASS |-> OVERRIDDEN_QUAD_MASS,
          OVERRIDDEN_QUAD_INERTIA |-> OVERRIDDEN_QUAD_INERTIA,
          pyb_dynamics         |-> pyb_dynamics,
          pyb_base             |-> pyb_base,
          info                 |-> {},
          collision            |-> NoCollision,
          rays                 |-> << >>,
          goal_dist            |-> "na",
          mse_wp_idx           |-> -1,
          exc                  |-> "none" ]

Raise(s, e) == [s EXCEPT !.exc = e]

\* info[k] = ... for every k of keys.
With(s, keys) == [s EXCEPT !.info = @ \cup keys]

\* ---- _get_info ------------------------------------------------------------
\* info["goal_reached"] = self.goal_reached: no statement of the class assigns
\* self.goal_reached (the assignment in _get_done was removed), so reading it
\* raises AttributeError.
info_goal_reached(s) ==
    IF TASK = "STABILIZATION" /\ COST = "QUADRATIC"
    THEN Raise(s, "AttributeError")
    ELSE s

\* info["mse"]: the goal row is min(ctrl_step_counter, X_GOAL.shape[0] - 1).
info_mse(s) ==
    IF TASK = "STABILIZATION"
    THEN With([s EXCEPT !.mse_wp_idx = -1], {"mse"})
    ELSE With([s EXCEPT !.mse_wp_idx = Min(s.ctrl_step_counter, GoalLen - 1)],
              {"mse"})

\* The first body of the list the engine reports a contact for (0: the loop
\* ends without a contact).
RECURSIVE first_contact(_, _)
first_contact(contactIn, i) ==
    IF i > n_bodies
    THEN 0
    ELSE IF body_at(i) \in contactIn
         THEN i
         ELSE first_contact(contactIn, i + 1)

\* Mutant of info_collision: the for loop without its else branch, so the flag
\* is only ever set.
info_collision_latched(s, contactIn) ==
    LET found(k) ==
            IF k # 0
            THEN With([s EXCEPT !.collision = <<body_at(k), TRUE>>,
                                !.currently_collided = TRUE], {"collision"})
            ELSE With([s EXCEPT !.collision = NoCollision], {"collision"})
    IN  found(first_contact(contactIn, 1))

\* Collisions: for ... if ret: ... break, else: ... (first body with a contact).
info_collision(s, contactIn) ==
    LET found(k) ==
            IF k # 0
            THEN With([s EXCEPT !.collision = <<body_at(k), TRUE>>,
                                !.currently_collided = TRUE], {"collision"})
            ELSE With([s EXCEPT !.collision = NoCollision,
                                !.currently_collided = FALSE], {"collision"})
    IN  found(first_contact(contactIn, 1))

\* Mutant of gate_check_due: no half second allowed for the initial drop.
gate_check_no_grace(s) ==
    /\ NUM_GATES > 0
    /\ s.current_gate < NUM_GATES

\* The guard of the gate-progress block.
gate_check_due(s) ==
    /\ 2 * s.pyb_step_counter > PYB_FREQ
    /\ NUM_GATES > 0
    /\ s.current_gate < NUM_GATES

\* Mutant of ray_loop: the loop without its break counts every ray that is hit.
RECURSIVE ray_loop_no_break(_, _, _)
ray_loop_no_break(s, rs, i) ==
    IF i > Len(rs)
    THEN s
    ELSE IF rs[i]
         THEN ray_loop_no_break(
                  [s EXCEPT !.current_gate = @ + 1, !.stepped_through_gate = TRUE],
                  rs, i + 1)
         ELSE ray_loop_no_break(s, rs, i + 1)

\* for r in rays: if r[2] < 0.9999: current_gate += 1; stepped = True; break
RECURSIVE ray_loop(_, _, _)
ray_loop(s, rs, i) ==
    IF i > Len(rs)
    THEN s
    ELSE IF rs[i]
         THEN [s EXCEPT !.current_gate = @ + 1, !.stepped_through_gate = TRUE]
         ELSE ray_loop(s, rs, i + 1)

\* self._gates_pose[self.current_gate] is read first: a negative index counts
\* from the end, an index below -NUM_GATES raises IndexError.
info_gate_progress(s, raysIn) ==
    IF ~gate_check_due(s)
    THEN s
    ELSE IF s.current_gate < 0 - NUM_GATES
    THEN Raise(s, "IndexError")
    ELSE ray_loop([s EXCEPT !.rays = raysIn, !.stepped_through_gate = FALSE],
                  raysIn, 1)

\* info["gates_pose"] = self.GATES[:, :6], info["obstacles_pose"][:, 2] = ...:
\* np.array([]) of an empty list has one dimension, so [:, k] raises IndexError.
info_poses(s) ==
    IF NUM_GATES = 0 \/ n_obstacles = 0
    THEN Raise(s, "IndexError")
    ELSE With(s, {"gates_pose", "obstacles_pose", "gates_in_range",
                  "obstacles_in_range", "gates_type", "current_gate_id"})

\* The goal block with its parts as parameters: the comparison of the dwell
\* counter (ge: >= for >), the assignment of task_completed (latched: only ever
\* set) and the else branch (zeroed: the counter restarts outside the tolerance).
info_goal_variant(s, distIn, ge, latched, zeroed) ==
    IF s.current_gate = NUM_GATES /\ QUAD_TYPE = 3
    THEN IF TASK = "TRAJ_TRACKING"
         THEN Raise(s, "ValueError")
         ELSE LET a == IF distIn = "within"
                       THEN [s EXCEPT !.goal_dist = distIn,
                                      !.at_goal_pos = TRUE,
                                      !.steps_at_goal_pos = @ + 1]
                       ELSE [s EXCEPT !.goal_dist = distIn,
                                      !.at_goal_pos = FALSE,
                                      !.steps_at_goal_pos = IF zeroed THEN 0 ELSE @]
                  over == IF ge
                          THEN a.steps_at_goal_pos >= CTRL_FREQ * 2
                          ELSE a.steps_at_goal_pos > CTRL_FREQ * 2
              IN  IF latched
                  THEN (IF over THEN [a EXCEPT !.task_completed = TRUE] ELSE a)
                  ELSE [a EXCEPT !.task_completed = over]
    ELSE s

\* Mutant of info_goal: task_completed = steps_at_goal_pos > 2 * CTRL_FREQ,
\* assigned in every evaluation instead of only ever set.
info_goal_not_sticky(s, distIn) == info_goal_variant(s, distIn, FALSE, FALSE, TRUE)

\* Mutant of info_goal: >= for > in the comparison with 2 * CTRL_FREQ.
info_goal_ge(s, distIn) == info_goal_variant(s, distIn, TRUE, TRUE, TRUE)

\* Mutant of info_goal: the else branch does not restart the dwell counter.
info_goal_no_restart(s, distIn) == info_goal_variant(s, distIn, FALSE, TRUE, FALSE)

\* Mutant of info_goal: the goal block without its test of current_gate.
info_goal_any_gate(s, distIn) ==
    IF QUAD_TYPE = 3
    THEN IF TASK = "TRAJ_TRACKING"
         THEN Raise(s, "ValueError")
         ELSE LET a == IF distIn = "within"
                       THEN [s EXCEPT !.goal_dist = distIn,
                                      !.at_goal_pos = TRUE,
                                      !.steps_at_goal_pos = @ + 1]
                       ELSE [s EXCEPT !.goal_dist = distIn,
                                      !.at_goal_pos = FALSE,
                                      !.steps_at_goal_pos = 0]
              IN  IF a.steps_at_goal_pos > CTRL_FREQ * 2
                  THEN [a EXCEPT !.task_completed = TRUE]
                  ELSE a
    ELSE s

\* Final goal position reached.
info_goal(s, distIn) ==
    IF s.current_gate = NUM_GATES
    THEN IF QUAD_TYPE = 3
         THEN IF TASK = "TRAJ_TRACKING"
              \* X_GOAL has a row per control step: goal_xyz is three rows of
              \* 12, and quad_xyz - goal_xyz cannot be broadcast.
              THEN Raise(s, "ValueError")
              ELSE LET a == IF distIn = "within"
                            THEN [s EXCEPT !.goal_dist = distIn,
                                           !.at_goal_pos = TRUE,
                                           !.steps_at_goal_pos = @ + 1]
                            ELSE [s EXCEPT !.goal_dist = distIn,
                                           !.at_goal_pos = FALSE,
                                           !.steps_at_goal_pos = 0]
                   IN  IF a.steps_at_goal_pos > CTRL_FREQ * 2
                       THEN [a EXCEPT !.task_completed = TRUE]
                       ELSE a
         ELSE s      \* logger.warning only
    ELSE s

\* A stage runs only while no exception has been raised.
Then(s, t) == IF s.exc # "none" THEN s ELSE t

get_info(s, contactIn, raysIn, distIn) ==
    \* the statements of _get_info in their order
    LET stage1(a) == info_goal_reached(a)
        stage2(a) == Then(a, info_mse(a))
        stage3(a) == Then(a, info_collision(a, contactIn))
        stage4(a) == Then(a, info_gate_progress(a, raysIn))
        stage5(a) == Then(a, info_poses(a))
        \* info["at_goal_position"] = False; info["task_completed"] = False
        stage6(a) == Then(a, info_goal(With(a, {"at_goal_position", "task_completed"}),
                                       distIn))
    IN  stage6(stage5(stage4(stage3(stage2(stage1(s))))))

\* ---- _get_done ------------------------------------------------------------
\* The out-of-bound mask of each fidelity level.
mask(q) ==
    CASE q = 1 -> <<1, 0>>
      [] q = 2 -> <<1, 0, 1, 0, 1, 0>>
      [] q = 3 -> <<1, 0, 1, 0, 1, 0, 1, 1, 1, 0, 0, 0>>

\* Mutant of get_done: a collision ends the episode whatever DONE_ON_COLLISION.
get_done_any_collision(s, oob) ==
    \/ done_on_out_of_bound /\ (\E i \in oob : mask(QUAD_TYPE)[i] = 1)
    \/ s.currently_collided
    \/ DONE_ON_COMPLETION /\ s.task_completed

\* Mutant of get_done: the out-of-bound test without its mask.
get_done_no_mask(s, oob) ==
    IF done_on_out_of_bound /\ oob # {}
    THEN TRUE
    ELSE IF DONE_ON_COLLISION /\ s.currently_collided
    THEN TRUE
    ELSE IF DONE_ON_COMPLETION /\ s.task_completed
    THEN TRUE
    ELSE FALSE

get_done(s, oob) ==
    IF done_on_out_of_bound /\ (\E i \in oob : mask(QUAD_TYPE)[i] = 1)
    THEN TRUE
    ELSE IF DONE_ON_COLLISION /\ s.currently_collided
    THEN TRUE
    ELSE IF DONE_ON_COMPLETION /\ s.task_completed
    THEN TRUE
    ELSE FALSE

\* ---- _get_reward ----------------------------------------------------------
\* The value of the dense and of the quadratic reward is not modelled here
\* (0); the row of X_GOAL they are computed against is.
\* Mutant of competition_reward: the four conditions as one if / elif chain.
competition_reward_elif(s, cv) ==
    IF s.stepped_through_gate THEN 100
    ELSE IF s.at_goal_pos THEN 100
    ELSE IF s.currently_collided THEN 0 - 1000
    ELSE IF cv THEN 0 - 100
    ELSE 0

competition_reward(s, cv) ==
    LET r0 == 0
        r1 == IF s.stepped_through_gate THEN r0 + 100 ELSE r0
        r2 == IF s.at_goal_pos THEN r1 + 100 ELSE r1
        r3 == IF s.currently_collided THEN r2 - 1000 ELSE r2
        r4 == IF cv THEN r3 - 100 ELSE r3
    IN  r4

\* Two one-dimensional arrays of lengths n and d can be multiplied elementwise
\* if they are as long as each other or one of them has length 1.
Broadcast(n, d) == n = d \/ n = 1 \/ d = 1

\* np.exp of a float64 x <= 0: 1.0 at 0, 0.0 (underflow) below -745.14, and a
\* float strictly between 0 and 1 otherwise.
np_exp(x) ==
    IF x = 0
    THEN [form |-> "int", rew |-> 1]
    ELSE IF x < 0 - 745
         THEN [form |-> "int", rew |-> 0]
         ELSE [form |-> "exp", rew |-> x]

\* Mutant of rl_reward: rew = np.exp(dist), the sign of the cost lost.
rl_reward_no_sign(x) ==
    IF ~Broadcast(rew_state_weight, state_dim(QUAD_TYPE))
       \/ ~Broadcast(rew_act_weight, action_dim(QUAD_TYPE))
    THEN [exc |-> "ValueError: operands could not be broadcast together",
          form |-> "int", rew |-> 0]
    ELSE IF rew_exponential
         THEN [exc |-> "none"] @@ np_exp(x.state_err + x.act_err)
         ELSE [exc |-> "none", form |-> "int", rew |-> 0 - (x.state_err + x.act_err)]

\* dist = np.sum(rew_state_weight * state_error * state_error)
\*      + np.sum(rew_act_weight * act_error * act_error), the weights 1.0;
\* rew = -dist, np.exp(rew) if rew_exponential.
rl_reward(x) ==
    IF ~Broadcast(rew_state_weight, state_dim(QUAD_TYPE))
       \/ ~Broadcast(rew_act_weight, action_dim(QUAD_TYPE))
    THEN [exc |-> "ValueError: operands could not be broadcast together",
          form |-> "int", rew |-> 0]
    ELSE IF rew_exponential
         THEN [exc |-> "none"] @@ np_exp(0 - (x.state_err + x.act_err))
         ELSE [exc |-> "none", form |-> "int", rew |-> 0 - (x.state_err + x.act_err)]

\* x: the state and action errors and the constraint violation of the step.
\* The value of the quadratic cost is not modelled (0).
get_reward(s, x) ==
    LET ret(r, wp) == [exc |-> r.exc, rew |-> r.rew, form |-> r.form,
                       wp |-> IF r.exc = "none" THEN wp ELSE -1]
        \* the end of the method is reached: None
        None == [exc |-> "none", rew |-> 0, form |-> "None", wp |-> -1]
    IN
    CASE COST = "RL_REWARD" ->
            IF TASK = "STABILIZATION"
            THEN ret(rl_reward(x), -1)
            ELSE IF TASK = "TRAJ_TRACKING"
            THEN ret(rl_reward(x), Min(s.ctrl_step_counter, GoalLen - 1))
            \* rew = -dist with dist not assigned
            ELSE [exc |-> "UnboundLocalError", rew |-> 0, form |-> "int", wp |-> -1]
      [] COST = "QUADRATIC" ->
            IF TASK = "STABILIZATION"
            THEN [exc |-> "none", rew |-> 0, form |-> "int", wp |-> -1]
            ELSE IF TASK = "TRAJ_TRACKING"
            \* self.X_GOAL[self.ctrl_step_counter, :]
            THEN IF s.ctrl_step_counter >= GoalLen
                 THEN [exc |-> "IndexError", rew |-> 0, form |-> "int", wp |-> -1]
                 ELSE [exc |-> "none", rew |-> 0, form |-> "int",
                       wp |-> s.ctrl_step_counter]
            ELSE None
      [] COST = "COMPETITION" ->
            [exc |-> "none", rew |-> competition_reward(s, x.cv), form |-> "int",
             wp |-> -1]
      [] OTHER -> None

\* ---- reset ----------------------------------------------------------------
\* BenchmarkEnv.before_reset: both step counters restart at 0.
before_reset(s) == [s EXCEPT !.pyb_step_counter = 0, !.ctrl_step_counter = 0]

\* self.obstacle_poses = np.array(self.obstacle_poses);
\* self.obstacle_poses[:, 2] = self.OBSTACLE_Z: one dimension when empty.
reset_obstacles(s) ==
    IF n_obstacles = 0 THEN Raise(s, "IndexError") ELSE s

\* current_gate from kwargs, then the IROS attributes.
reset_gate(s, kw) ==
    IF kw # << >>
    THEN [s EXCEPT !.current_gate = kw[1]]
    ELSE [s EXCEPT !.current_gate = 0]

\* Mutant of reset_flags: task_completed is not cleared.
reset_flags_keep_completed(s) ==
    [s EXCEPT !.stepped_through_gate = FALSE,
              !.currently_collided = FALSE,
              !.at_goal_pos = FALSE,
              !.steps_at_goal_pos = 0]

\* The IROS attributes of the episode.
reset_flags(s) ==
    [s EXCEPT !.stepped_through_gate = FALSE,
              !.currently_collided = FALSE,
              !.at_goal_pos = FALSE,
              !.steps_at_goal_pos = 0,
              !.task_completed = FALSE]

\* What _randomize_values_by_info can return for the inertial properties: the
\* entries of INERTIAL_PROP_RAND_INFO are drawn (1D: M; 2D: M, Iyy; 3D: all).
PropDraws ==
    IF ~RANDOMIZED_INERTIAL_PROP
    THEN { [M |-> MASS, J |-> J] }
    ELSE { [M |-> 2, J |-> J], [M |-> 0 - 1, J |-> J] }
         \cup (IF QUAD_TYPE = 1 THEN {}
               ELSE { [M |-> 2, J |-> [J EXCEPT ![2] = 0 - 1]] })

\* Mutant of reset_inertial: the values drawn are written to the nominal mass
\* and inertia as well.
reset_inertial_nominal(s, props) ==
    LET prop_values == IF RANDOMIZED_INERTIAL_PROP
                       THEN props
                       ELSE [M |-> s.MASS, J |-> s.J]
    IN  IF /\ RANDOMIZED_INERTIAL_PROP
           /\ (prop_values.M < 0 \/ \E i \in 1..3 : prop_values.J[i] < 0)
        THEN Raise(s, "ValueError: negative randomized inertial properties")
        ELSE [s EXCEPT !.MASS = prop_values.M,
                       !.J = prop_values.J,
                       !.OVERRIDDEN_QUAD_MASS = prop_values.M,
                       !.OVERRIDDEN_QUAD_INERTIA = prop_values.J,
                       !.pyb_dynamics = [mass |-> prop_values.M,
                                         inertia |-> prop_values.J]]

\* Choose randomized or deterministic inertial properties, then override them
\* in the engine (p.changeDynamics).
reset_inertial(s, props) ==
    LET prop_values == IF RANDOMIZED_INERTIAL_PROP
                       THEN props
                       ELSE [M |-> s.MASS, J |-> s.J]
    IN  IF /\ RANDOMIZED_INERTIAL_PROP
           /\ (prop_values.M < 0 \/ \E i \in 1..3 : prop_values.J[i] < 0)
        THEN Raise(s, "ValueError: negative randomized inertial properties")
        ELSE [s EXCEPT !.OVERRIDDEN_QUAD_MASS = prop_values.M,
                       !.OVERRIDDEN_QUAD_INERTIA = prop_values.J,
                       !.pyb_dynamics = [mass |-> prop_values.M,
                                         inertia |-> prop_values.J]]

\* The vehicle before the first reset.
NoBase == [pose |-> <<"none", 0>>, vel |-> "none", randomized |-> FALSE]

\* The row of self._gates_pose the index i reads, a negative index counting
\* from the end.
gates_pose_row(i) == IF i < 0 THEN i + NUM_GATES ELSE i

\* Mutant of reset_init_state: the pose of the gate given, not of the one
\* before it.
reset_init_state_at_gate(s, kw) ==
    IF kw # << >> /\ kw[1] # 0
    THEN IF ~(kw[1] < NUM_GATES)
         THEN Raise(s, "AssertionError")
         ELSE IF kw[1] - 1 < 0 - NUM_GATES
         THEN Raise(s, "IndexError")
         ELSE [s EXCEPT !.pyb_base = [pose |-> <<"gates_pose", gates_pose_row(kw[1])>>,
                                      vel |-> "zero",
                                      randomized |-> FALSE]]
    ELSE [s EXCEPT !.pyb_base = [pose |-> <<"init_state", 0>>,
                                 vel |-> "init_state",
                                 randomized |-> RANDOMIZED_INIT]]

\* The initial pose: at the previous gate when a gate id other than 0 is given
\* (assert init_gate_id < NUM_GATES; self._gates_pose[init_gate_id - 1], the
\* velocities 0), the initial state of the configuration otherwise, passed
\* through _randomize_values_by_info if RANDOMIZED_INIT.
reset_init_state(s, kw) ==
    IF kw # << >> /\ kw[1] # 0
    THEN IF ~(kw[1] < NUM_GATES)
         THEN Raise(s, "AssertionError")
         ELSE IF kw[1] - 1 < 0 - NUM_GATES
         THEN Raise(s, "IndexError")
         ELSE [s EXCEPT !.pyb_base = [pose |-> <<"gates_pose", gates_pose_row(kw[1] - 1)>>,
                                      vel |-> "zero",
                                      randomized |-> FALSE]]
    ELSE [s EXCEPT !.pyb_base = [pose |-> <<"init_state", 0>>,
                                 vel |-> "init_state",
                                 randomized |-> RANDOMIZED_INIT]]

\* The keys _get_reset_info sets before info.update(self._get_info()).
ResetInfoKeys ==
    {"symbolic_model", "nominal_physical_parameters", "x_reference", "u_reference",
     "symbolic_constraints", "ctrl_timestep", "ctrl_freq", "episode_len_sec",
     "quadrotor_kf", "quadrotor_km", "gate_dimensions", "obstacle_dimensions",
     "nominal_gates_pos_and_type", "nominal_obstacles_pos",
     "initial_state_randomization", "inertial_prop_randomization",
     "gates_and_obs_randomization", "disturbances", "pyb_client", "urdf_dir"}

get_reset_info(s, contactIn, raysIn, distIn) ==
    get_info(With(s, ResetInfoKeys), contactIn, raysIn, distIn)

reset(s, kw, props, contactIn, raysIn, distIn) ==
    \* the statements of reset in their order
    LET stage1(a) == reset_obstacles(before_reset(a))
        stage2(a) == Then(a, reset_gate(a, kw))
        stage3(a) == Then(a, reset_flags(a))
        stage4(a) == Then(a, reset_inertial(a, props))
        stage5(a) == Then(a, reset_init_state(a, kw))
        stage6(a) == Then(a, get_reset_info(a, contactIn, raysIn, distIn))
    IN  stage6(stage5(stage4(stage3(stage2(stage1(s))))))

\* ---- step -----------------------------------------------------------------
\* BenchmarkEnv.after_step: the counters advance once the step has its results.
after_step(s) ==
    [s EXCEPT !.pyb_step_counter = @ + PYB_STEPS_PER_CTRL,
              !.ctrl_step_counter = @ + 1]

\* BaseAviary._advance_simulation: the engine moves the vehicle from where
\* the reset put it.
advance_simulation(s) ==
    [s EXCEPT !.pyb_base = [pose |-> <<"advanced", 0>>, vel |-> "advanced",
                            randomized |-> FALSE]]

\* Mutant of step_results: done and rew computed before the info, from the
\* attributes the previous call left.
step_results_stale(s1, oob, x) ==
    IF s1.exc # "none"
    THEN [s |-> s1, done |-> FALSE, rew |-> 0, form |-> "int", wp |-> -1]
    ELSE LET rw(r) ==
                 IF r.exc # "none"
                 THEN [s |-> Raise(s1, r.exc), done |-> FALSE, rew |-> 0,
                       form |-> "int", wp |-> -1]
                 ELSE [s |-> after_step(s1), done |-> get_done(Self, oob),
                       rew |-> r.rew, form |-> r.form, wp |-> r.wp]
         IN  rw(get_reward(Self, x))

\* obs, info, done, rew in this order; [s, done, rew, form, wp].
step_results(s1, oob, x) ==
    IF s1.exc # "none"
    THEN [s |-> s1, done |-> FALSE, rew |-> 0, form |-> "int", wp |-> -1]
    ELSE LET rw(r) ==
                 IF r.exc # "none"
                 THEN [s |-> Raise(s1, r.exc), done |-> FALSE, rew |-> 0,
                       form |-> "int", wp |-> -1]
                 ELSE [s |-> after_step(s1), done |-> get_done(s1, oob),
                       rew |-> r.rew, form |-> r.form, wp |-> r.wp]
         IN  rw(get_reward(s1, x))

step(s, contactIn, raysIn, distIn, oob, x) ==
    step_results(get_info(advance_simulation(s), contactIn, raysIn, distIn), oob, x)

\* ---- the state machine ------------------------------------------------------
\* The answers of the engine a call can get: the rays are cast only when the
\* gate check is due, the goal distance is compared only in 3D stabilization.
NoHit == [i \in 1..NumRays |-> FALSE]

RaysAsked(s) == IF gate_check_due(s) THEN RayChoices ELSE {NoHit}

DistAsked == IF QUAD_TYPE = 3 /\ TASK = "STABILIZATION"
             THEN {"within", "outside"}
             ELSE {"outside"}

\* What _get_reward reads of the step: the constraint violation under the
\* competition cost; the errors of the state and of the action under the dense
\* reward, in a step of an episode those of a vehicle at its goal.
RewardAsked ==
    IF COST = "COMPETITION"
    THEN { [cv |-> c, state_err |-> 0, act_err |-> 0] : c \in BOOLEAN }
    ELSE { [cv |-> FALSE, state_err |-> 0, act_err |-> 0] }

\* An answer the call never asked for is no input of the call.
Asked(s, raysIn, distIn) ==
    /\ s.rays = << >> => raysIn = NoHit
    /\ s.goal_dist = "na" => distIn = "outside"

Commit(s) ==
    /\ current_gate' = s.current_gate
    /\ stepped_through_gate' = s.stepped_through_gate
    /\ currently_collided' = s.currently_collided
    /\ at_goal_pos' = s.at_goal_pos
    /\ steps_at_goal_pos' = s.steps_at_goal_pos
    /\ task_completed' = s.task_completed
    /\ pyb_step_counter' = s.pyb_step_counter
    /\ ctrl_step_counter' = s.ctrl_step_counter
    /\ rays' = s.rays
    /\ goal_dist' = s.goal_dist
    /\ mse_wp_idx' = s.mse_wp_idx
    /\ MASS' = s.MASS
    /\ J' = s.J
    /\ X_GOAL' = s.X_GOAL
    /\ U_GOAL' = s.U_GOAL
    /\ OVERRIDDEN_QUAD_MASS' = s.OVERRIDDEN_QUAD_MASS
    /\ OVERRIDDEN_QUAD_INERTIA' = s.OVERRIDDEN_QUAD_INERTIA
    /\ pyb_dynamics' = s.pyb_dynamics
    /\ pyb_base' = s.pyb_base
    /\ info' = (IF s.exc = "none" THEN s.info ELSE {})
    /\ collision' = s.collision
    /\ raised' = s.exc

\* What a reset found of the episode before it: the gate index and the
\* task-completed flag; nothing is kept of it over a step.
Prior == [ current_gate |-> current_gate, task_completed |-> task_completed ]

NoPrior == [ current_gate |-> 0, task_completed |-> FALSE ]

\* ---- __init__ ---------------------------------------------------------------
\* The init_state argument: None, a dict, an ndarray of some length, or a
\* value of another type (a list, a tuple).
NoInitState == [kind |-> "None", len |-> 0]

\* The arguments every environment of the model is constructed with.
CourseArgs ==
    [ quad_type : {1, 2, 3},
      task : {"STABILIZATION", "TRAJ_TRACKING"},
      cost : {"RL_REWARD", "QUADRATIC", "COMPETITION"},
      gates : 0..MaxGates,
      obstacles : {0, 1},
      done_on_out_of_bound : BOOLEAN,
      done_on_collision : BOOLEAN,
      done_on_completion : BOOLEAN ]

\* The defaults of the other arguments: scalar reward weights, no weight for
\* info["mse"] (0: None), no initial state, no randomization; a task_info
\* whose stabilization goal has three components (TASK_INFO of the class has
\* [0, 1], which THREE_D cannot index at 2).
DefaultArgs ==
    [ randomized_inertial_prop |-> FALSE,
      randomized_init |-> FALSE,
      normalized_rl_action_space |-> FALSE,
      verbose |-> FALSE,
      norm_act_scale |-> 1,
      hover_thrust |-> 1,
      rew_state_weight |-> 1,
      rew_act_weight |-> 1,
      rew_exponential |-> TRUE,
      info_mse_metric_state_weight |-> 0,
      init_state |-> NoInitState,
      task_info |-> [stabilization_goal |-> <<0, 0, 1>>],
      mass |-> 1,
      inertia |-> <<1, 1, 1>> ]

\* Gravitational acceleration, 9.8 m/s^2 in units of 0.025 m/s^2 (a multiple of
\* every action_dim, so that MASS * GRAVITY_ACC / action_dim is exact).
GRAVITY_ACC == 392

\* self.U_GOAL = np.ones(self.action_dim) * self.MASS * self.GRAVITY_ACC
\*               / self.action_dim
hover_input(q, m) == [i \in 1..action_dim(q) |-> (m * GRAVITY_ACC) \div action_dim(q)]

\* g[i] of the Python list g (index from 0); IndexError past its end.
item(g, i) == IF i < Len(g) THEN [exc |-> "none", v |-> g[i + 1]]
                            ELSE [exc |-> "IndexError", v |-> 0]

\* np.hstack of the items, or the first exception one of them raised.
hstack(items) ==
    LET bad == { i \in DOMAIN items : items[i].exc # "none" }
    IN  IF bad = {}
        THEN [exc |-> "none", x |-> [i \in DOMAIN items |-> items[i].v]]
        ELSE [exc |-> items[CHOOSE i \in bad : \A j \in bad : i <= j].exc, x |-> << >>]

\* 0.0
zero == [exc |-> "none", v |-> 0]

\* X_GOAL of a stabilization task with self.TASK_INFO["stabilization_goal"] = g,
\* with the entry of ONE_D read from the x entry of the target.
stabilization_goal_state_1d_x(q, g) ==
    CASE q = 1 -> hstack(<<item(g, 0), zero>>)
      [] q = 2 -> hstack(<<item(g, 0), zero, item(g, 1), zero, zero, zero>>)
      [] q = 3 -> hstack(<<item(g, 0), zero, item(g, 1), zero, item(g, 2), zero,
                           zero, zero, zero, zero, zero, zero>>)

\* X_GOAL of a stabilization task with self.TASK_INFO["stabilization_goal"] = g:
\* x = {z, z_dot}, x = {x, x_dot, z, z_dot, theta, theta_dot},
\* x = {x, x_dot, y, y_dot, z, z_dot, phi, theta, psi, p, q, r}.
stabilization_goal_state(q, g) ==
    CASE q = 1 -> hstack(<<item(g, 1), zero>>)
      [] q = 2 -> hstack(<<item(g, 0), zero, item(g, 1), zero, zero, zero>>)
      [] q = 3 -> hstack(<<item(g, 0), zero, item(g, 1), zero, item(g, 2), zero,
                           zero, zero, zero, zero, zero, zero>>)

\* The exception __init__ raises for the arguments a ("none": it returns).
init_exc(a) ==
    IF /\ a.info_mse_metric_state_weight # 0
       /\ a.info_mse_metric_state_weight # state_dim(a.quad_type)
    THEN "ValueError: Wrong info_mse_metric_state_weight argument size."
    ELSE IF a.init_state.kind = "ndarray" /\ a.init_state.len < state_dim(a.quad_type)
    \* for i, init_name in enumerate(labels): ... init_state[i]
    THEN "IndexError"
    ELSE IF a.init_state.kind \notin {"None", "ndarray", "dict"}
    THEN "ValueError: init_state incorrect format."
    ELSE IF a.task = "STABILIZATION"
    THEN stabilization_goal_state(a.quad_type, a.task_info.stabilization_goal).exc
    ELSE "none"

\* The attributes __init__ leaves.
init(a) ==
    [ exc |-> init_exc(a),
      QUAD_TYPE |-> a.quad_type,
      TASK |-> a.task,
      COST |-> a.cost,
      NUM_GATES |-> a.gates,
      n_obstacles |-> a.obstacles,
      done_on_out_of_bound |-> a.done_on_out_of_bound,
      DONE_ON_COLLISION |-> a.done_on_collision,
      DONE_ON_COMPLETION |-> a.done_on_completion,
      RANDOMIZED_INERTIAL_PROP |-> a.randomized_inertial_prop,
      RANDOMIZED_INIT |-> a.randomized_init,
      NORMALIZED_RL_ACTION_SPACE |-> a.normalized_rl_action_space,
      VERBOSE |-> a.verbose,
      norm_act_scale |-> a.norm_act_scale,
      hover_thrust |-> a.hover_thrust,
      rew_state_weight |-> a.rew_state_weight,
      rew_act_weight |-> a.rew_act_weight,
      rew_exponential |-> a.rew_exponential,
      info_mse_metric_state_weight |->
          IF a.info_mse_metric_state_weight = 0
          THEN state_dim(a.quad_type)
          ELSE a.info_mse_metric_state_weight,
      init_state |-> a.init_state,
      TASK_INFO |-> a.task_info,
      MASS |-> a.mass,
      J |-> a.inertia,
      X_GOAL |-> IF a.task = "STABILIZATION"
                 THEN [rows |-> 0,
                       x |-> stabilization_goal_state(a.quad_type,
                                                      a.task_info.stabilization_goal).x]
                 ELSE [rows |-> GoalLen, x |-> << >>],
      U_GOAL |-> hover_input(a.quad_type, a.mass) ]

\* The keys of the two class dictionaries as the class statement leaves them.
InertialPropKeys == {"M", "Ixx", "Iyy", "Izz"}

InitStateKeys ==
    {"init_x", "init_x_dot", "init_y", "init_y_dot", "init_z", "init_z_dot",
     "init_phi", "init_theta", "init_psi", "init_p", "init_theta_dot", "init_q",
     "init_r"}

\* self.INIT_STATE_LABELS[q], in its order.
INIT_STATE_LABELS(q) ==
    CASE q = 1 -> <<"init_x", "init_x_dot">>
      [] q = 2 -> <<"init_x", "init_x_dot", "init_z", "init_z_dot", "init_theta",
                    "init_theta_dot">>
      [] q = 3 -> <<"init_x", "init_x_dot", "init_y", "init_y_dot", "init_z",
                    "init_z_dot", "init_phi", "init_theta", "init_psi", "init_p",
                    "init_q", "init_r">>

Range(f) == { f[i] : i \in DOMAIN f }

\* Remove randomization info of initial state components inconsistent with
\* quad type: self.INIT_STATE_RAND_INFO.pop(init_name, None), on the dictionary
\* of the class.
pop_init_state_rand_info(q, keys) == keys \cap Range(INIT_STATE_LABELS(q))

\* Remove randomization info of inertial components inconsistent with quad
\* type: self.INERTIAL_PROP_RAND_INFO.pop(...), on the dictionary of the class.
pop_inertial_prop_rand_info(q, keys) ==
    CASE q = 1 -> keys \ {"Ixx", "Iyy", "Izz"}
      [] q = 2 -> keys \ {"Ixx", "Izz"}
      [] q = 3 -> keys

\* No further environment.
NoTwins == [e \in {"a", "b"} |-> [made |-> FALSE, pos |-> 0, draws |-> << >>]]

\* The attributes of an environment __init__ has returned as o.
Attributes(o) ==
    /\ o.exc = "none"
    /\ QUAD_TYPE = o.QUAD_TYPE
    /\ TASK = o.TASK
    /\ COST = o.COST
    /\ NUM_GATES = o.NUM_GATES
    /\ n_obstacles = o.n_obstacles
    /\ done_on_out_of_bound = o.done_on_out_of_bound
    /\ DONE_ON_COLLISION = o.DONE_ON_COLLISION
    /\ DONE_ON_COMPLETION = o.DONE_ON_COMPLETION
    /\ RANDOMIZED_INERTIAL_PROP = o.RANDOMIZED_INERTIAL_PROP
    /\ RANDOMIZED_INIT = o.RANDOMIZED_INIT
    /\ NORMALIZED_RL_ACTION_SPACE = o.NORMALIZED_RL_ACTION_SPACE
    /\ VERBOSE = o.VERBOSE
    /\ norm_act_scale = o.norm_act_scale
    /\ hover_thrust = o.hover_thrust
    /\ action = << >>
    /\ current_preprocessed_action = << >>
    /\ warning = FALSE
    /\ sym_args = << >>
    /\ sym_value = << >>
    /\ rew_state_weight = o.rew_state_weight
    /\ rew_act_weight = o.rew_act_weight
    /\ rew_exponential = o.rew_exponential
    /\ info_mse_metric_state_weight = o.info_mse_metric_state_weight
    /\ init_state = o.init_state
    /\ TASK_INFO = o.TASK_INFO
    /\ MASS = o.MASS
    /\ J = o.J
    /\ X_GOAL = o.X_GOAL
    /\ U_GOAL = o.U_GOAL
    /\ OVERRIDDEN_QUAD_MASS = 0
    /\ OVERRIDDEN_QUAD_INERTIA = <<0, 0, 0>>
    /\ pyb_dynamics = [mass |-> 0, inertia |-> <<0, 0, 0>>]
    /\ pyb_base = NoBase
    /\ kwargs = << >>
    /\ prior = NoPrior
    /\ info = {}
    /\ collision = NoCollision
    /\ current_gate = 0
    /\ stepped_through_gate = FALSE
    /\ currently_collided = FALSE
    /\ at_goal_pos = FALSE
    /\ steps_at_goal_pos = 0
    /\ task_completed = FALSE
    /\ pyb_step_counter = 0
    /\ ctrl_step_counter = 0
    /\ cnstr_violation = FALSE
    /\ contact = {}
    /\ rays = << >>
    /\ goal_dist = "na"
    /\ state_oob = {}
    /\ state_err = 0
    /\ act_err = 0
    /\ op = "init"
    /\ raised = "none"
    /\ rew = 0
    /\ rew_form = "int"
    /\ done = FALSE
    /\ rew_wp_idx = -1
    /\ mse_wp_idx = -1

\* The state after __init__ has returned o, in a process that has constructed
\* no other environment.
Constructed(o) ==
    /\ Attributes(o)
    /\ INERTIAL_PROP_RAND_INFO = pop_inertial_prop_rand_info(o.QUAD_TYPE, InertialPropKeys)
    /\ INIT_STATE_RAND_INFO = pop_init_state_rand_info(o.QUAD_TYPE, InitStateKeys)
    /\ seed = 0
    /\ twins = NoTwins

\* Every course, task, cost and termination setting, the other arguments at
\* their defaults.
Init ==
    \E c \in CourseArgs : \E o \in {init(c @@ DefaultArgs)} : Constructed(o)

\* Environments with the inertial properties randomized at reset: every
\* course, task and cost, the termination settings at their defaults.
RandArgs ==
    { c \in CourseArgs : /\ c.done_on_out_of_bound
                         /\ ~c.done_on_collision
                         /\ ~c.done_on_completion }

InitRand ==
    \E c \in RandArgs :
        \E o \in {init(c @@ [DefaultArgs EXCEPT !.randomized_inertial_prop = TRUE,
                                                !.randomized_init = TRUE])} :
            Constructed(o)

\* reset reads no attribute of the episode before it, so the states it leads to
\* are the same from every state.  The caller resets a fresh environment, after
\* an exception, and when the episode has run the steps of the model; step
\* does not look at done, and neither does the caller.
EpisodeOver ==
    \/ op = "init"
    \/ raised # "none"
    \/ ctrl_step_counter = MaxSteps

Reset ==
    /\ EpisodeOver
    /\ \E kw \in ResetKwargs, props \in PropDraws, contactIn \in ContactChoices,
       raysIn \in RaysAsked(before_reset(Self)), distIn \in DistAsked :
         \E s \in {reset(Self, kw, props, contactIn, raysIn, distIn)} :
            /\ Asked(s, raysIn, distIn)
            /\ Commit(s)
            /\ op' = "reset"
            /\ kwargs' = kw
            /\ prior' = Prior
            /\ contact' = contactIn
            /\ state_oob' = {}       \* reset calls neither _get_done
            /\ state_err' = 0        \* nor _get_reward
            /\ act_err' = 0
            /\ cnstr_violation' = FALSE
            /\ rew' = 0
            /\ rew_form' = "int"
            /\ done' = FALSE
            /\ rew_wp_idx' = -1
            /\ UNCHANGED <<cfgVars, classVars, twinVars, ctlVars, symVars>>

Step ==
    /\ op # "init"
    /\ raised = "none"
    /\ ctrl_step_counter < MaxSteps
    \* step(Self, contactIn, raysIn, distIn, oob, x), the info evaluated once
    \* for all the inputs of done and reward
    /\ \E contactIn \in ContactChoices, raysIn \in RaysAsked(Self),
          distIn \in DistAsked :
        \E s1 \in {get_info(advance_simulation(Self), contactIn, raysIn, distIn)} :
        /\ Asked(s1, raysIn, distIn)
        /\ \E oob \in OobChoices, x \in RewardAsked :
             \E r \in {step_results(s1, oob, x)} :
                /\ Commit(r.s)
                /\ op' = "step"
                /\ kwargs' = << >>
                /\ prior' = NoPrior
                /\ contact' = contactIn
                /\ state_oob' = oob
                /\ state_err' = x.state_err
                /\ act_err' = x.act_err
                /\ cnstr_violation' = x.cv
                /\ rew' = r.rew
                /\ rew_form' = r.form
                /\ done' = r.done
                /\ rew_wp_idx' = r.wp
                /\ UNCHANGED <<cfgVars, classVars, twinVars, ctlVars, symVars>>

Next == Reset \/ Step

\* ---- _get_reward as a function ------------------------------------------------
\* The environments the reward is evaluated in: every fidelity level, the dense
\* reward with and without the exponential, and every task and cost, "OTHER"
\* standing for a member of Task or of Cost that _get_reward does not name.
RewardArgs ==
    { c @@ [DefaultArgs EXCEPT !.rew_exponential = e] :
        c \in [ quad_type : {1, 2, 3},
                task : {"STABILIZATION", "TRAJ_TRACKING", "OTHER"},
                cost : {"RL_REWARD", "QUADRATIC", "COMPETITION", "OTHER"},
                gates : {1},
                obstacles : {1},
                done_on_out_of_bound : {TRUE},
                done_on_collision : {FALSE},
                done_on_completion : {FALSE} ],
        e \in BOOLEAN }

InitReward ==
    \E a \in RewardArgs : \E o \in {init(a)} : Constructed(o)

\* The sums of squared errors a state and an action can have: none, small,
\* and on both sides of the exponent np.exp underflows at.
ErrChoices == {0, 1, 745, 746}

\* The attributes and the inputs _get_reward reads under each cost.
RewardInputs ==
    IF COST = "COMPETITION"
    THEN [ stepped_through_gate : BOOLEAN, at_goal_pos : BOOLEAN,
           currently_collided : BOOLEAN, ctrl_step_counter : {0},
           cv : BOOLEAN, state_err : {0}, act_err : {0} ]
    ELSE [ stepped_through_gate : {FALSE}, at_goal_pos : {FALSE},
           currently_collided : {FALSE}, ctrl_step_counter : 0..MaxSteps,
           cv : {FALSE}, state_err : ErrChoices, act_err : {0, 1} ]

\* One evaluation of _get_reward, in an environment whose attributes are i.
Reward ==
    /\ op = "init"
    /\ \E i \in RewardInputs :
         \E s \in {[Self EXCEPT !.stepped_through_gate = i.stepped_through_gate,
                                !.at_goal_pos = i.at_goal_pos,
                                !.currently_collided = i.currently_collided,
                                !.ctrl_step_counter = i.ctrl_step_counter]} :
         \E r \in {get_reward(s, i)} :
            /\ Commit(Raise(s, r.exc))
            /\ op' = "reward"
            /\ kwargs' = << >>
            /\ prior' = NoPrior
            /\ contact' = {}
            /\ state_oob' = {}
            /\ state_err' = i.state_err
            /\ act_err' = i.act_err
            /\ cnstr_violation' = i.cv
            /\ rew' = r.rew
            /\ rew_form' = r.form
            /\ done' = FALSE
            /\ rew_wp_idx' = r.wp
            /\ UNCHANGED <<cfgVars, classVars, twinVars, ctlVars, symVars>>

SpecReward == InitReward /\ [][Reward]_vars

\* ---- _get_done as a function --------------------------------------------------
\* The components of the state X of each fidelity level, in their order.
X(q) ==
    CASE q = 1 -> <<"z", "z_dot">>
      [] q = 2 -> <<"x", "x_dot", "z", "z_dot", "theta", "theta_dot">>
      [] q = 3 -> <<"x", "x_dot", "y", "y_dot", "z", "z_dot", "phi", "theta", "psi",
                    "p", "q", "r">>

\* Every fidelity level and every setting of the three termination flags.
DoneArgs ==
    { c @@ DefaultArgs :
        c \in [ quad_type : {1, 2, 3},
                task : {"TRAJ_TRACKING"},
                cost : {"RL_REWARD"},
                gates : {1},
                obstacles : {1},
                done_on_out_of_bound : BOOLEAN,
                done_on_collision : BOOLEAN,
                done_on_completion : BOOLEAN ] }

InitDone ==
    \E a \in DoneArgs : \E o \in {init(a)} : Constructed(o)

\* The sets of components a state can have outside the bounds of state_space:
\* none, any single one, all the velocities and rates, all of them.
OobSets ==
    LET all == 1..state_dim(QUAD_TYPE)
    IN  { {} } \cup { {i} : i \in all }
        \cup { { i \in all : X(QUAD_TYPE)[i] \notin {"x", "y", "z", "phi", "theta", "psi"} },
               all }

\* One evaluation of _get_done.
Done ==
    /\ op = "init"
    /\ \E oob \in OobSets, cc \in BOOLEAN, tc \in BOOLEAN :
         \E s \in {[Self EXCEPT !.currently_collided = cc, !.task_completed = tc]} :
            /\ Commit(s)
            /\ op' = "done"
            /\ kwargs' = << >>
            /\ prior' = NoPrior
            /\ contact' = {}
            /\ state_oob' = oob
            /\ state_err' = 0
            /\ act_err' = 0
            /\ cnstr_violation' = FALSE
            /\ rew' = 0
            /\ rew_form' = "int"
            /\ done' = get_done(s, oob)
            /\ rew_wp_idx' = -1
            /\ UNCHANGED <<cfgVars, classVars, twinVars, ctlVars, symVars>>

SpecDone == InitDone /\ [][Done]_vars

\* ---- _preprocess_control as a function ---------------------------------------
\* The bounds of the direct thrust of one actuator (a_low, a_high of
\* _set_action_space), in the unit of the model.
a_low == 0
a_high == 2

\* self.action_space.low and .high, the same for every actuator.
action_space_low == IF NORMALIZED_RL_ACTION_SPACE THEN 0 - 1 ELSE a_low

action_space_high == IF NORMALIZED_RL_ACTION_SPACE THEN 1 ELSE a_high

\* np.clip(a, self.action_space.low, self.action_space.high)
np_clip(a) ==
    [i \in DOMAIN a |->
        IF a[i] < action_space_low THEN action_space_low
        ELSE IF a[i] > action_space_high THEN action_space_high
        ELSE a[i]]

\* Mutant of preprocess_control: the warning whatever VERBOSE.
preprocess_control_loud(a) ==
    LET act == IF NORMALIZED_RL_ACTION_SPACE THEN np_clip(a) ELSE a
        thrust == IF NORMALIZED_RL_ACTION_SPACE
                  THEN [i \in DOMAIN act |-> (1 + norm_act_scale * act[i]) * hover_thrust]
                  ELSE np_clip(a)
    IN  [thrust |-> thrust, warning |-> thrust # act]

\* The thrust _preprocess_control stores in current_preprocessed_action and
\* whether it logs the warning.  In the normalized action space `action` is
\* rebound to the clipped action before the thrust is compared with it.
preprocess_control(a) ==
    LET act == IF NORMALIZED_RL_ACTION_SPACE THEN np_clip(a) ELSE a
        thrust == IF NORMALIZED_RL_ACTION_SPACE
                  THEN [i \in DOMAIN act |-> (1 + norm_act_scale * act[i]) * hover_thrust]
                  ELSE np_clip(a)
    IN  [thrust |-> thrust, warning |-> (thrust # act /\ VERBOSE)]

\* The environments the control is preprocessed in: the 1D and the 2D vehicle,
\* either action space, verbose or not, three scales and two hover thrusts.
ControlArgs ==
    { [quad_type |-> q, task |-> "TRAJ_TRACKING", cost |-> "RL_REWARD",
       gates |-> 1, obstacles |-> 1, done_on_out_of_bound |-> TRUE,
       done_on_collision |-> FALSE, done_on_completion |-> FALSE]
      @@ [DefaultArgs EXCEPT !.normalized_rl_action_space = n,
                             !.verbose = v,
                             !.norm_act_scale = sc,
                             !.hover_thrust = h] :
        q \in {1, 2}, n \in BOOLEAN, v \in BOOLEAN, sc \in {0, 1, 2}, h \in {1, 2} }

InitControl ==
    \E a \in ControlArgs : \E o \in {init(a)} : Constructed(o)

\* The actions passed to step: every actuator below, within or above the
\* bounds of either action space.
ActionChoices == [1..action_dim(QUAD_TYPE) -> (0 - 2)..3]

\* One call of _preprocess_control.
PreprocessControl ==
    /\ op = "init"
    /\ \E a \in ActionChoices :
         \E r \in {preprocess_control(a)} :
            /\ action' = a
            /\ current_preprocessed_action' = r.thrust
            /\ warning' = r.warning
    /\ op' = "control"
    /\ UNCHANGED <<cfgVars, goalVars, selfVars, physVars, classVars, twinVars, symVars>>
    /\ UNCHANGED <<kwargs, prior, info, collision, raised, rew, rew_form, done,
                   rew_wp_idx, mse_wp_idx>>

SpecControl == InitControl /\ [][PreprocessControl]_vars

\* ---- the symbolic model ------------------------------------------------------
\* The numbers of the symbolic model are fractions n / d in lowest terms with
\* d > 0; d = 0 is the value of a division by zero (inf, nan) and of every
\* expression that has one as an operand.
RECURSIVE GCD(_, _)
GCD(a, b) == IF b = 0 THEN a ELSE GCD(b, a % b)

Abs(a) == IF a < 0 THEN 0 - a ELSE a

Undefined == [n |-> 0, d |-> 0]

Frac(n, d) ==
    IF d = 0
    THEN Undefined
    ELSE LET k == GCD(Abs(n), Abs(d))
             sg == IF d < 0 THEN 0 - 1 ELSE 1
         IN  [n |-> (sg * n) \div k, d |-> (sg * d) \div k]

Num(i) == [n |-> i, d |-> 1]

Plus(a, b) == IF a.d = 0 \/ b.d = 0 THEN Undefined
              ELSE Frac(a.n * b.d + b.n * a.d, a.d * b.d)

Minus(a, b) == IF a.d = 0 \/ b.d = 0 THEN Undefined
               ELSE Frac(a.n * b.d - b.n * a.d, a.d * b.d)

Times(a, b) == IF a.d = 0 \/ b.d = 0 THEN Undefined ELSE Frac(a.n * b.n, a.d * b.d)

Over(a, b) == IF a.d = 0 \/ b.d = 0 THEN Undefined ELSE Frac(a.n * b.d, a.d * b.n)

\* Angles are whole quarter turns (0, 90, 180, 270 degrees), where cs.sin and
\* cs.cos take the values 0, 1, 0, -1 and 1, 0, -1, 0.
sin(k) == CASE k % 4 = 0 -> 0 [] k % 4 = 1 -> 1 [] k % 4 = 2 -> 0 [] k % 4 = 3 -> 0 - 1

cos(k) == CASE k % 4 = 0 -> 1 [] k % 4 = 1 -> 0 [] k % 4 = 2 -> 0 - 1 [] k % 4 = 3 -> 0

tan(k) == Over(Num(sin(k)), Num(cos(k)))

\* l / sqrt(2), the arm of a thrust about a body axis, in the unit of length.
l_over_sqrt2 == 1

\* gamma = self.KM / self.KF
gamma == 2

\* csRotXYZ(phi, theta, psi): the rotation of the body frame to the world
\* frame, Rz(psi) Ry(theta) Rx(phi).
csRotXYZ(phi, theta, psi) ==
    << << cos(psi) * cos(theta),
          cos(psi) * sin(theta) * sin(phi) - sin(psi) * cos(phi),
          cos(psi) * sin(theta) * cos(phi) + sin(psi) * sin(phi) >>,
       << sin(psi) * cos(theta),
          sin(psi) * sin(theta) * sin(phi) + cos(psi) * cos(phi),
          sin(psi) * sin(theta) * cos(phi) - cos(psi) * sin(phi) >>,
       << 0 - sin(theta), cos(theta) * sin(phi), cos(theta) * cos(phi) >> >>

\* X_dot of ONE_D with the gravity term of the acceleration left out.
X_dot_1d_weightless(m, Xv, U) ==
    << Num(Xv[2]), Over(Num(U[1]), Num(m)) >>

\* X_dot of ONE_D: X = (z, z_dot), U = (T).
X_dot_1d(m, Xv, U) ==
    << Num(Xv[2]), Minus(Over(Num(U[1]), Num(m)), Num(GRAVITY_ACC)) >>

\* dyn_eqn, X_dot, of the vehicle of mass m and inertia Jd at the state Xv
\* under the input U.
X_dot(qt, m, Jd, Xv, U) ==
    CASE qt = 1 -> X_dot_1d(m, Xv, U)
      [] qt = 2 ->
           \* X = (x, x_dot, z, z_dot, theta, theta_dot), U = (T1, T2)
           LET theta == Xv[5]
           IN  << Num(Xv[2]),
                  Over(Num(sin(theta) * (U[1] + U[2])), Num(m)),
                  Num(Xv[4]),
                  Minus(Over(Num(cos(theta) * (U[1] + U[2])), Num(m)), Num(GRAVITY_ACC)),
                  Num(Xv[6]),
                  Over(Num(l_over_sqrt2 * (U[2] - U[1])), Num(Jd[2])) >>
      [] qt = 3 ->
           \* X = (x, x_dot, y, y_dot, z, z_dot, phi, theta, psi, p, q, r),
           \* U = (f1, f2, f3, f4)
           LET phi == Xv[7]
               theta == Xv[8]
               psi == Xv[9]
               p == Xv[10]
               q == Xv[11]
               r == Xv[12]
               Rob == csRotXYZ(phi, theta, psi)
               f == U[1] + U[2] + U[3] + U[4]
               \* Rob @ cs.vertcat(0, 0, f1 + f2 + f3 + f4) / m - cs.vertcat(0, 0, g)
               pos_ddot == [i \in 1..3 |->
                              Minus(Over(Num(Rob[i][3] * f), Num(m)),
                                    Num(IF i = 3 THEN GRAVITY_ACC ELSE 0))]
               Mb == << l_over_sqrt2 * (U[1] + U[2] - U[3] - U[4]),
                        l_over_sqrt2 * (0 - U[1] + U[2] + U[3] - U[4]),
                        gamma * (U[1] - U[2] + U[3] - U[4]) >>
               \* cs.skew(cs.vertcat(p, q, r)) @ J @ cs.vertcat(p, q, r)
               gyro == << q * Jd[3] * r - r * Jd[2] * q,
                          r * Jd[1] * p - p * Jd[3] * r,
                          p * Jd[2] * q - q * Jd[1] * p >>
               rate_dot == [i \in 1..3 |-> Over(Num(Mb[i] - gyro[i]), Num(Jd[i]))]
               ang_dot ==
                   << Plus(Num(p), Plus(Times(Times(Num(sin(phi)), tan(theta)), Num(q)),
                                        Times(Times(Num(cos(phi)), tan(theta)), Num(r)))),
                      Num(cos(phi) * q - sin(phi) * r),
                      Plus(Times(Over(Num(sin(phi)), Num(cos(theta))), Num(q)),
                           Times(Over(Num(cos(phi)), Num(cos(theta))), Num(r))) >>
           IN  << Num(Xv[2]), pos_ddot[1], Num(Xv[4]), pos_ddot[2], Num(Xv[6]), pos_ddot[3],
                  ang_dot[1], ang_dot[2], ang_dot[3],
                  rate_dot[1], rate_dot[2], rate_dot[3] >>

RECURSIVE Sum(_, _)
Sum(f, n) == IF n = 0 THEN 0 ELSE f[n] + Sum(f, n - 1)

\* e.T @ M @ e
quad(e, M) ==
    Sum([i \in DOMAIN e |-> Sum([j \in DOMAIN e |-> e[i] * M[i][j] * e[j]], Len(e))],
        Len(e))

\* cost_func with the input measured from zero, not from the reference input.
cost_func_no_input_ref(Xv, Xr, U, Ur, Q, R) ==
    Plus(Times(Frac(1, 2), Num(quad([i \in DOMAIN Xv |-> Xv[i] - Xr[i]], Q))),
         Times(Frac(1, 2), Num(quad(U, R))))

\* cost_func = 0.5 * (X - Xr).T @ Q @ (X - Xr) + 0.5 * (U - Ur).T @ R @ (U - Ur)
cost_func(Xv, Xr, U, Ur, Q, R) ==
    Plus(Times(Frac(1, 2), Num(quad([i \in DOMAIN Xv |-> Xv[i] - Xr[i]], Q))),
         Times(Frac(1, 2), Num(quad([i \in DOMAIN U |-> U[i] - Ur[i]], R))))

\* The vehicles the symbolic model is set up for: every fidelity level, three
\* masses, equal and unequal moments of inertia.
SymbolicArgs ==
    { [DefaultArgs EXCEPT !.mass = m, !.inertia = jd]
      @@ [quad_type |-> qt, task |-> "STABILIZATION", cost |-> "QUADRATIC", gates |-> 1,
          obstacles |-> 1, done_on_out_of_bound |-> TRUE,
          done_on_collision |-> FALSE, done_on_completion |-> FALSE] :
        qt \in {1, 2, 3}, m \in {1, 2, 3}, jd \in {<<1, 1, 1>>, <<1, 2, 3>>} }

InitSymbolic ==
    \E a \in SymbolicArgs : \E o \in {init(a)} : Constructed(o)

\* The slots of the positions in the state.
PositionSlots == CASE QUAD_TYPE = 1 -> {1} [] QUAD_TYPE = 2 -> {1, 3} [] QUAD_TYPE = 3 -> {1, 3, 5}

\* States the dynamics are evaluated at: at the origin and away from it, at
\* rest and moving, level and turned by quarter turns, with and without body
\* rates.
StateChoices ==
    CASE QUAD_TYPE = 1 -> { <<z, zd>> : z \in {0, 5}, zd \in {0, 1} }
      [] QUAD_TYPE = 2 ->
           { <<ps[1], vl[1], ps[2], vl[2], th, thd>> :
               ps \in {<<0, 0>>, <<5, 7>>}, vl \in {<<0, 0>>, <<1, 0>>, <<0, 1>>},
               th \in {0, 1, 2}, thd \in {0, 1} }
      [] QUAD_TYPE = 3 ->
           { <<ps[1], vl[1], ps[2], vl[2], ps[3], vl[3], an[1], an[2], an[3],
               rt[1], rt[2], rt[3]>> :
               ps \in {<<0, 0, 0>>, <<5, 6, 7>>}, vl \in {<<0, 0, 0>>, <<1, 2, 3>>},
               an \in {0, 1} \X {0, 1} \X {0, 1},
               rt \in {<<0, 0, 0>>, <<1, 0, 0>>, <<1, 2, 3>>} }

\* Inputs: the hover thrust (U_EQ = U_GOAL), no thrust, twice the hover thrust,
\* and the hover thrust with more on the first actuator.
InputChoices ==
    { U_GOAL,
      [i \in DOMAIN U_GOAL |-> 0],
      [i \in DOMAIN U_GOAL |-> 2 * U_GOAL[i]],
      [i \in DOMAIN U_GOAL |-> IF i = 1 THEN U_GOAL[i] + 4 ELSE U_GOAL[i]] }

\* One evaluation of the dynamics of self.symbolic.
EvalDynamics ==
    /\ op = "init"
    /\ \E x \in StateChoices, u \in InputChoices :
          /\ sym_args' = [X |-> x, U |-> u]
          /\ sym_value' = X_dot(QUAD_TYPE, MASS, J, x, u)
    /\ op' = "dyn_eqn"
    /\ UNCHANGED <<cfgVars, goalVars, selfVars, physVars, classVars, twinVars, ctlVars>>
    /\ UNCHANGED <<kwargs, prior, info, collision, raised, rew, rew_form, done,
                   rew_wp_idx, mse_wp_idx>>

SpecDynamics == InitSymbolic /\ [][EvalDynamics]_vars

\* Vectors and weight matrices the cost is evaluated with: zero, increasing
\* and mixed-sign vectors; the zero matrix, the identity, a matrix of negative
\* entries and one that is not symmetric.
VecChoices(n) ==
    { [i \in 1..n |-> 0], [i \in 1..n |-> i], [i \in 1..n |-> IF i = 1 THEN 0 - 2 ELSE 1] }

MatChoices(n) ==
    { [i \in 1..n |-> [j \in 1..n |-> 0]],
      [i \in 1..n |-> [j \in 1..n |-> IF i = j THEN 1 ELSE 0]],
      [i \in 1..n |-> [j \in 1..n |-> 0 - 1]],
      [i \in 1..n |-> [j \in 1..n |-> i - 2 * j]] }

\* One evaluation of the cost of self.symbolic.
EvalCost ==
    /\ op = "init"
    /\ \E x \in VecChoices(state_dim(QUAD_TYPE)), xr \in VecChoices(state_dim(QUAD_TYPE)),
          u \in VecChoices(action_dim(QUAD_TYPE)), ur \in VecChoices(action_dim(QUAD_TYPE)),
          Q \in MatChoices(state_dim(QUAD_TYPE)), R \in MatChoices(action_dim(QUAD_TYPE)) :
          /\ sym_args' = [X |-> x, U |-> u, Xr |-> xr, Ur |-> ur, Q |-> Q, R |-> R]
          /\ sym_value' = << cost_func(x, xr, u, ur, Q, R) >>
    /\ op' = "cost_func"
    /\ UNCHANGED <<cfgVars, goalVars, selfVars, physVars, classVars, twinVars, ctlVars>>
    /\ UNCHANGED <<kwargs, prior, info, collision, raised, rew, rew_form, done,
                   rew_wp_idx, mse_wp_idx>>

SpecCost == InitSymbolic /\ [][EvalCost]_vars

Spec == Init /\ [][Next]_vars

SpecRand == InitRand /\ [][Next]_vars

\* ---- the arguments of __init__ ---------------------------------------------
\* Weight vectors and initial states of every kind, on one course, under the
\* dense and the competition reward: scalar weights (length 1), weights as
\* long as the state or the action, and one longer; an info["mse"] weight not
\* given (0), as long as the state, and one longer; an initial state not given,
\* a dict, a list, and arrays one shorter than, as long as and one longer than
\* the state.
CtorArgs ==
    LET course == [ quad_type : {1, 2, 3},
                    task : {"STABILIZATION"},
                    cost : {"RL_REWARD", "COMPETITION"},
                    gates : {1},
                    obstacles : {1},
                    done_on_out_of_bound : {TRUE},
                    done_on_collision : {FALSE},
                    done_on_completion : {FALSE} ]
        lens(d) == {1, d, d + 1}
    IN  { c @@ [DefaultArgs EXCEPT !.rew_state_weight = sw,
                                   !.rew_act_weight = aw,
                                   !.info_mse_metric_state_weight = mw] :
            c \in course,
            sw \in lens(state_dim(3)) \cup lens(state_dim(2)) \cup lens(state_dim(1)),
            aw \in lens(action_dim(3)) \cup lens(action_dim(2)) \cup lens(action_dim(1)),
            mw \in {0} \cup lens(state_dim(3)) \cup lens(state_dim(2))
                      \cup lens(state_dim(1)) }
        \cup
        { c @@ [DefaultArgs EXCEPT !.init_state = st] :
            c \in course,
            st \in {NoInitState, [kind |-> "dict", len |-> 0],
                    [kind |-> "list", len |-> 2]}
                   \cup { [kind |-> "ndarray", len |-> n] : n \in 1..13 } }

\* The arguments that are about the fidelity level they are given with.
CtorArgsOf(q) ==
    { a \in CtorArgs :
        /\ a.quad_type = q
        /\ a.rew_state_weight \in {1, state_dim(q), state_dim(q) + 1}
        /\ a.rew_act_weight \in {1, action_dim(q), action_dim(q) + 1}
        /\ a.info_mse_metric_state_weight \in {0, state_dim(q), state_dim(q) + 1}
        /\ a.init_state.kind = "ndarray" =>
               a.init_state.len \in {state_dim(q) - 1, state_dim(q), state_dim(q) + 1} }

InitArgs ==
    \E q \in {1, 2, 3} : \E a \in CtorArgsOf(q) : \E o \in {init(a)} : Constructed(o)

SpecArgs == InitArgs /\ [][Next]_vars

\* ---- the references of the task -------------------------------------------
\* Targets of one, two and three components (in units of 0.5 m: <<1, 2>> is
\* x = 0.5, z = 1.0), the one of the class among them, and three masses, for
\* every fidelity level and both tasks on one course.
GoalArgs ==
    { [DefaultArgs EXCEPT !.task_info = [stabilization_goal |-> g], !.mass = m]
      @@ [quad_type |-> q, task |-> t, cost |-> "RL_REWARD", gates |-> 1,
          obstacles |-> 1, done_on_out_of_bound |-> TRUE,
          done_on_collision |-> FALSE, done_on_completion |-> FALSE] :
        q \in {1, 2, 3},
        t \in {"STABILIZATION", "TRAJ_TRACKING"},
        g \in {<<2>>, <<0, 1>>, <<1, 2>>, <<1, 2, 3>>, <<3, 1, 2>>},
        m \in {1, 2, 3} }

InitGoal ==
    \E a \in GoalArgs : \E o \in {init(a)} : Constructed(o)

SpecGoal == InitGoal /\ [][Next]_vars

\* ---- two environments of one configuration and one seed --------------------
\* Resets of each of the two environments.
MaxResets == 2

\* The i-th sample of a generator seeded with sd (np_random after seed(sd)).
sample(sd, i) == (5 * sd + 3 * i) % 7

\* One sample per pose component perturbed: three per obstacle, then three per
\* gate (RANDOMIZED_GATES_AND_OBS).
course_draws(pos) ==
    [vals |-> [i \in 1..(3 * (n_obstacles + NUM_GATES)) |-> sample(seed, pos + i - 1)],
     pos |-> pos + 3 * (n_obstacles + NUM_GATES)]

\* _randomize_values_by_info(original_values, randomization_info): one sample
\* for every key of original_values that randomization_info has, in the order
\* of original_values; the other keys keep their value ("nominal").
RECURSIVE randomize_values_by_info(_, _, _, _)
randomize_values_by_info(keys, rand_info, i, r) ==
    IF i > Len(keys)
    THEN r
    ELSE IF keys[i] \in rand_info
         THEN randomize_values_by_info(keys, rand_info, i + 1,
                  [vals |-> Append(r.vals, <<keys[i], sample(seed, r.pos)>>),
                   pos |-> r.pos + 1])
         ELSE randomize_values_by_info(keys, rand_info, i + 1,
                  [vals |-> Append(r.vals, <<keys[i], -1>>), pos |-> r.pos])

\* The draws of one reset of an environment whose np_random is at pos: the
\* course, the inertial properties, the initial state.
reset_draws(pos) ==
    LET c == course_draws(pos)
        m == randomize_values_by_info(<<"M", "Ixx", "Iyy", "Izz">>,
                                      INERTIAL_PROP_RAND_INFO, 1,
                                      [vals |-> << >>, pos |-> c.pos])
        x == randomize_values_by_info(INIT_STATE_LABELS(QUAD_TYPE),
                                      INIT_STATE_RAND_INFO, 1,
                                      [vals |-> << >>, pos |-> m.pos])
    IN  [draw |-> [course |-> c.vals, inertial |-> m.vals, init |-> x.vals],
         pos |-> x.pos]

\* The configuration of the two environments: every fidelity level on a course
\* of one gate and one obstacle, every randomization enabled; no environment
\* constructed yet.
InitSeed ==
    \E q \in {1, 2, 3}, sd \in {0, 1} :
      \E o \in {init([quad_type |-> q, task |-> "TRAJ_TRACKING", cost |-> "RL_REWARD",
                       gates |-> 1, obstacles |-> 1,
                       done_on_out_of_bound |-> TRUE, done_on_collision |-> FALSE,
                       done_on_completion |-> FALSE]
                      @@ [DefaultArgs EXCEPT !.randomized_inertial_prop = TRUE,
                                                !.randomized_init = TRUE])} :
         /\ Attributes(o)
         /\ INERTIAL_PROP_RAND_INFO = InertialPropKeys
         /\ INIT_STATE_RAND_INFO = InitStateKeys
         /\ seed = sd
         /\ twins = NoTwins

\* __init__ of environment e: its generator is seeded, the class dictionaries
\* lose the keys that are not of its fidelity level.
ConstructTwin(e) ==
    /\ ~twins[e].made
    /\ twins' = [twins EXCEPT ![e].made = TRUE, ![e].pos = 0]
    /\ INERTIAL_PROP_RAND_INFO' =
           pop_inertial_prop_rand_info(QUAD_TYPE, INERTIAL_PROP_RAND_INFO)
    /\ INIT_STATE_RAND_INFO' = pop_init_state_rand_info(QUAD_TYPE, INIT_STATE_RAND_INFO)
    /\ UNCHANGED <<cfgVars, goalVars, selfVars, physVars, callVars, seed, ctlVars,
                   symVars>>

\* __init__ of an environment of fidelity level q somewhere else in the process.
ConstructOther(q) ==
    /\ INERTIAL_PROP_RAND_INFO' = pop_inertial_prop_rand_info(q, INERTIAL_PROP_RAND_INFO)
    /\ INIT_STATE_RAND_INFO' = pop_init_state_rand_info(q, INIT_STATE_RAND_INFO)
    /\ UNCHANGED <<cfgVars, goalVars, selfVars, physVars, callVars, twinVars, ctlVars,
                   symVars>>

\* reset of environment e: the draws of the course, of the inertial properties
\* and of the initial state.
ResetTwin(e) ==
    /\ twins[e].made
    /\ Len(twins[e].draws) < MaxResets
    /\ \E r \in {reset_draws(twins[e].pos)} :
          twins' = [twins EXCEPT ![e].pos = r.pos,
                                 ![e].draws = Append(@, r.draw)]
    /\ UNCHANGED <<cfgVars, goalVars, selfVars, physVars, callVars, classVars, seed,
                   ctlVars, symVars>>

NextSeed ==
    \/ \E e \in {"a", "b"} : ConstructTwin(e)
    \/ \E q \in {1, 2, 3} : ConstructOther(q)
    \/ \E e \in {"a", "b"} : ResetTwin(e)

SpecSeed == InitSeed /\ [][NextSeed]_vars

\* ---- the claims -------------------------------------------------------------
AllHit == [i \in 1..NumRays |-> TRUE]

\* C1: every step changes current_gate by 0 or by exactly +1; it is +1 exactly
\* in the steps whose ray test through the current gate has a hit, however
\* many rays are hit, and no step decrements it.
C1_GateAdvancesByOne ==
    [][op' = "step" =>
          /\ current_gate' = current_gate \/ current_gate' = current_gate + 1
          /\ (\E i \in DOMAIN rays' : rays'[i]) <=> current_gate' = current_gate + 1
      ]_vars

\* C1 witness: a step in which every ray was hit has taken gate 0 to gate 1.
C1_Witness ==
    /\ op = "step" /\ raised = "none"
    /\ rays = AllHit
    /\ current_gate = 1
    /\ ctrl_step_counter = 2

\* C2 (as claimed): after a reset that returned and any steps,
\* 0 <= current_gate <= NUM_GATES, and a step taken with
\* current_gate = NUM_GATES leaves it there.
C2_GateInRange ==
    [][/\ (raised' = "none" => 0 <= current_gate' /\ current_gate' <= NUM_GATES)
       /\ (op' = "step" /\ current_gate = NUM_GATES => current_gate' = NUM_GATES)
      ]_vars

\* C3 (as claimed): after every step stepped_through_gate is true if and only
\* if that step incremented current_gate.
C3_PulseIffIncrement ==
    [][op' = "step" /\ raised' = "none" =>
          (stepped_through_gate' <=> current_gate' = current_gate + 1)
      ]_vars

\* C4: the competition reward of a step is
\* 100*[gate] + 100*[goal] - 1000*[collision] - 100*[constraint violation],
\* for every combination of the four flags.
C4_SparseRewardIsSum ==
    LET b(flag) == IF flag THEN 1 ELSE 0 IN
    op = "step" /\ raised = "none" /\ COST = "COMPETITION" =>
        rew = 100 * b(stepped_through_gate) + 100 * b(at_goal_pos)
              - 1000 * b(currently_collided) - 100 * b(cnstr_violation)

\* C4 witness: a gate passed while colliding, nothing else: -900.
C4_Witness ==
    /\ op = "step" /\ raised = "none" /\ COST = "COMPETITION"
    /\ stepped_through_gate /\ currently_collided
    /\ ~at_goal_pos /\ ~cnstr_violation
    /\ rew = 0 - 900

\* C5: done is the OR of the three enabled conditions: a position or angle
\* component outside the bounds, the collision flag, the task-completed flag.
C5_DoneIsOr ==
    LET checked == CASE QUAD_TYPE = 1 -> {1}
                     [] QUAD_TYPE = 2 -> {1, 3, 5}
                     [] QUAD_TYPE = 3 -> {1, 3, 5, 7, 8, 9}
    IN  op = "step" /\ raised = "none" =>
            (done <=> \/ done_on_out_of_bound /\ state_oob \cap checked # {}
                      \/ DONE_ON_COLLISION /\ currently_collided
                      \/ DONE_ON_COMPLETION /\ task_completed)

\* C5 witness: done by the collision alone, with the two other checks enabled
\* and false.
C5_Witness ==
    /\ op = "step" /\ raised = "none" /\ done
    /\ done_on_out_of_bound /\ DONE_ON_COLLISION /\ DONE_ON_COMPLETION
    /\ state_oob = {2} /\ currently_collided /\ ~task_completed

\* C6: task_completed is sticky: no step clears it, only reset does.
C6_TaskCompletedSticky ==
    [][task_completed /\ ~task_completed' => op' = "reset"]_vars

\* C6 witness: the task is completed and the vehicle has since left the goal
\* tolerance (dwell counter back at 0).
C6_Witness ==
    /\ op = "step" /\ raised = "none"
    /\ task_completed
    /\ goal_dist = "outside" /\ steps_at_goal_pos = 0 /\ ~at_goal_pos

\* C7: task_completed becomes true exactly in the evaluation that takes the
\* dwell counter from 2*CTRL_FREQ to 2*CTRL_FREQ + 1 (3D, all gates passed),
\* never earlier, and a dwell counter above 2*CTRL_FREQ always has it true.
C7_CompletedWhenDwellExceeds ==
    [][/\ ~task_completed /\ task_completed' =>
              /\ QUAD_TYPE = 3
              /\ current_gate' = NUM_GATES
              /\ steps_at_goal_pos = 2 * CTRL_FREQ
              /\ steps_at_goal_pos' = 2 * CTRL_FREQ + 1
       /\ steps_at_goal_pos' > 2 * CTRL_FREQ => task_completed'
       /\ ~task_completed' => steps_at_goal_pos' <= 2 * CTRL_FREQ
      ]_vars

\* C7 witness: the evaluation that completed the task.
C7_Witness ==
    /\ op = "step" /\ raised = "none"
    /\ task_completed
    /\ steps_at_goal_pos = 2 * CTRL_FREQ + 1

C9_GoalLookupClamped ==
    [][op' = "step" /\ TASK = "TRAJ_TRACKING" /\ ctrl_step_counter >= GoalLen =>
          /\ raised' # "IndexError"
          /\ raised' = "none" =>
                /\ mse_wp_idx' = GoalLen - 1
                /\ COST # "COMPETITION" => rew_wp_idx' = GoalLen - 1
      ]_vars

\* C10 (as claimed): reset fails for every initial_target_gate_id outside
\* [0, NUM_GATES): a reset that returns has started the episode at a gate
\* index within [0, NUM_GATES).
C10_ResetRejectsGateId ==
    [][op' = "reset" /\ raised' = "none" =>
          0 <= current_gate' /\ current_gate' < NUM_GATES
      ]_vars

\* C11 (as claimed): a reset that raises for a negative randomized mass or
\* inertia entry raises before committing state: it has not assigned the
\* overridden mass and inertia, has not applied them to the engine, and has not
\* changed the gate index and the flags of the episode.
C11_RaiseBeforeCommit ==
    [][op' = "reset"
       /\ raised' = "ValueError: negative randomized inertial properties" =>
          /\ OVERRIDDEN_QUAD_MASS' = OVERRIDDEN_QUAD_MASS
          /\ OVERRIDDEN_QUAD_INERTIA' = OVERRIDDEN_QUAD_INERTIA
          /\ pyb_dynamics' = pyb_dynamics
          /\ current_gate' = current_gate
          /\ stepped_through_gate' = stepped_through_gate
          /\ currently_collided' = currently_collided
          /\ at_goal_pos' = at_goal_pos
          /\ steps_at_goal_pos' = steps_at_goal_pos
          /\ task_completed' = task_completed
      ]_vars

ExpRewardReturned ==
    /\ op = "reward"
    /\ COST = "RL_REWARD"
    /\ TASK \in {"STABILIZATION", "TRAJ_TRACKING"}
    /\ rew_exponential
    /\ raised = "none"

\* The position of a reward of [0, 1] in the order of the floats: 0.0 below
\* every e^x, x < 0, these in the order of x, and 1.0 above them.
RewardRank(r) ==
    IF r.form = "int" THEN (IF r.rew = 0 THEN 0 - 746 ELSE 0) ELSE r.rew

C17_WeightLengthsChecked ==
    /\ rew_state_weight \in {1, state_dim(QUAD_TYPE)}
    /\ rew_act_weight \in {1, action_dim(QUAD_TYPE)}
    /\ info_mse_metric_state_weight = state_dim(QUAD_TYPE)
    /\ raised # "ValueError: operands could not be broadcast together"

\* C18 (as claimed): an environment is constructed only with no initial state,
\* a mapping, or an array as long as the state of its fidelity level.
C18_InitStateChecked ==
    \/ init_state.kind \in {"None", "dict"}
    \/ init_state.kind = "ndarray" /\ init_state.len = state_dim(QUAD_TYPE)

\* ---- C14: the collision flag and info["collision"] ---------------------------
\* The first body of c in the order gates, obstacles, ground plane.
FirstInOrder(c) ==
    LET of(kind) == {b \in c : b[1] = kind}
        lowest(bs) == CHOOSE b \in bs : \A o \in bs : b[2] <= o[2]
    IN  IF of("gate") # {}
        THEN lowest(of("gate"))
        ELSE IF of("obstacle") # {}
             THEN lowest(of("obstacle"))
             ELSE <<"plane", 0>>

\* C14: after every step that returns, the collision flag is true if and only
\* if the engine reports a contact of the vehicle with a gate, an obstacle or
\* the ground plane in this step (whatever the flag was before), and
\* info["collision"] names the first such body in the order gates, obstacles,
\* plane, or is (None, False) when there is none.
C14_CollisionIsCurrentContact ==
    op = "step" /\ raised = "none" =>
        /\ currently_collided <=> contact # {}
        /\ "collision" \in info
        /\ collision = IF contact = {}
                       THEN NoCollision
                       ELSE <<FirstInOrder(contact), TRUE>>

\* A step with contacts on a gate, an obstacle and the plane at once: the gate
\* is the body named.
C14_Witness ==
    /\ op = "step"
    /\ raised = "none"
    /\ \E g \in 1..NUM_GATES :
          /\ {<<"gate", g>>, <<"obstacle", n_obstacles>>, <<"plane", 0>>} \subseteq contact
          /\ collision = << <<"gate", g>>, TRUE >>
    /\ currently_collided

\* C15: a reset that returns leaves current_gate at the gate asked for (0 when
\* none is), the pulse and task_completed false, and the collision flag, the
\* at-goal flag and the dwell counter at values that its own readings of the
\* engine determine, whatever the attributes were before.
C15_ResetReinitialises ==
    [][op' = "reset" /\ raised' = "none" =>
          /\ current_gate' = (IF kwargs' = << >> THEN 0 ELSE kwargs'[1])
          /\ ~stepped_through_gate'
          /\ ~task_completed'
          /\ currently_collided' = (contact' # {})
          /\ at_goal_pos' = (goal_dist' = "within")
          /\ steps_at_goal_pos' = (IF goal_dist' = "within" THEN 1 ELSE 0)
      ]_vars

\* A reset has returned in an environment whose last episode had completed
\* the task and stood at another gate.
C15_Witness ==
    /\ op = "reset"
    /\ raised = "none"
    /\ prior.task_completed
    /\ prior.current_gate # current_gate
    /\ ~task_completed

\* C16: no reset and no step changes X_GOAL, U_GOAL or the nominal mass and
\* inertia (of which the symbolic model is built, at construction only).
C16_GoalConstant ==
    [][/\ X_GOAL' = X_GOAL
       /\ U_GOAL' = U_GOAL
       /\ MASS' = MASS
       /\ J' = J]_vars

\* A step has returned in an episode whose reset drew a mass other than the
\* nominal one.
C16_Witness ==
    /\ op = "step"
    /\ raised = "none"
    /\ RANDOMIZED_INERTIAL_PROP
    /\ OVERRIDDEN_QUAD_MASS # MASS
    /\ pyb_dynamics.mass = OVERRIDDEN_QUAD_MASS

\* ---- C13: the fields of info ---------------------------------------------------
\* The fields every info has, and those only the info of reset has.
InfoFields ==
    {"mse", "collision", "gates_pose", "obstacles_pose", "gates_in_range",
     "obstacles_in_range", "current_gate_id", "at_goal_position", "task_completed"}

ResetOnlyFields == {"symbolic_model", "nominal_physical_parameters"}

\* C13 (as claimed): for every task, cost and fidelity level, building the info
\* of a reset or a step never fails on a missing field, the info returned has
\* mse, collision, the poses and ranges of gates and obstacles, current_gate_id,
\* at_goal_position and task_completed, and it has the symbolic model and the
\* nominal physical parameters if and only if reset returns it.
C13_InfoComplete ==
    op \in {"reset", "step"} =>
        /\ raised # "AttributeError"
        /\ raised = "none" =>
              /\ InfoFields \subseteq info
              /\ op = "reset" => ResetOnlyFields \subseteq info
              /\ op = "step" => ResetOnlyFields \cap info = {}

\* C19 (as claimed): two environments of the same configuration and the same
\* seed draw the same gate and obstacle perturbations, inertial parameters and
\* initial state in their k-th reset, for every k.
C19_SameSeedSameDraws ==
    \A k \in 1..MaxResets :
        k <= Len(twins["a"].draws) /\ k <= Len(twins["b"].draws) =>
            twins["a"].draws[k] = twins["b"].draws[k]

\* C30 (as claimed): the randomization specifications an environment sees are
\* those of its own fidelity level, whichever environments the process has
\* constructed before or after it: the keys another construction removes are
\* removed for that other instance only.
C30_RandInfoPerInstance ==
    \A e \in {"a", "b"} :
        twins[e].made =>
            /\ INERTIAL_PROP_RAND_INFO
                  = pop_inertial_prop_rand_info(QUAD_TYPE, InertialPropKeys)
            /\ INIT_STATE_RAND_INFO
                  = pop_init_state_rand_info(QUAD_TYPE, InitStateKeys)

\* C28: while the physics step counter is at most 0.5 * PYB_FREQ, no
\* evaluation of the info changes current_gate or sets the pulse, whatever the
\* rays through the gate would answer: not the one a step makes, not the one
\* reset makes, which leaves the gate reset has just set.
C28_GracePeriod ==
    [][/\ 2 * pyb_step_counter <= PYB_FREQ =>
            /\ \A raysIn \in RayChoices :
                  \E s \in {info_gate_progress(Self, raysIn)} :
                      /\ s.current_gate = current_gate
                      /\ s.stepped_through_gate = stepped_through_gate
            /\ op' = "step" =>
                  /\ current_gate' = current_gate
                  /\ stepped_through_gate' = stepped_through_gate
       /\ op' = "reset" =>
            /\ pyb_step_counter' = 0
            /\ stepped_through_gate' => stepped_through_gate
            /\ raised' = "none" =>
                  current_gate' = (IF kwargs' = << >> THEN 0 ELSE kwargs'[1])
      ]_vars

\* The first step of an episode has returned, taken with a gate still to pass
\* and the physics step counter within the half second.
C28_Witness ==
    /\ op = "step"
    /\ raised = "none"
    /\ ctrl_step_counter = 1
    /\ 2 * (pyb_step_counter - PYB_STEPS_PER_CTRL) <= PYB_FREQ
    /\ NUM_GATES > 0
    /\ 0 <= current_gate
    /\ current_gate < NUM_GATES
    /\ ~stepped_through_gate

\* C29: in every reachable state at_goal_pos is true exactly when the dwell
\* counter is positive, and at_goal_pos or task_completed is true only with
\* current_gate = NUM_GATES.
C29_GoalCreditAfterAllGates ==
    /\ at_goal_pos <=> steps_at_goal_pos > 0
    /\ at_goal_pos \/ task_completed => current_gate = NUM_GATES

\* The task is completed and the vehicle out of the tolerance again, after a
\* course whose gates were passed in the episode.
C29_Witness ==
    /\ op = "step"
    /\ raised = "none"
    /\ NUM_GATES > 0
    /\ current_gate = NUM_GATES
    /\ task_completed
    /\ ~at_goal_pos
    /\ steps_at_goal_pos = 0

\* C27: the done and the reward a step returns are those of the collision
\* flag, the pulse, the at-goal flag and the task-completed flag as the info
\* evaluation of this step has left them, whatever they were before the step;
\* the info is built in the same step.
C27_DoneAndRewardOfThisStep ==
    [][op' = "step" /\ raised' = "none" =>
          LET b(flag) == IF flag THEN 1 ELSE 0
              oob == done_on_out_of_bound
                     /\ \E i \in state_oob' : mask(QUAD_TYPE)[i] = 1
          IN  /\ "collision" \in info'
              /\ done' = (\/ oob
                          \/ DONE_ON_COLLISION /\ currently_collided'
                          \/ DONE_ON_COMPLETION /\ task_completed')
              /\ COST = "COMPETITION" =>
                    rew' = 100 * b(stepped_through_gate') + 100 * b(at_goal_pos')
                           - 1000 * b(currently_collided')
                           - 100 * b(cnstr_violation')
      ]_vars

\* A step of the competition has returned 100 for the gate it passed, the
\* pulse false before it: the step before was within the half second in which
\* no gate is checked.
C27_Witness ==
    /\ op = "step"
    /\ raised = "none"
    /\ COST = "COMPETITION"
    /\ 2 * (pyb_step_counter - 2 * PYB_STEPS_PER_CTRL) <= PYB_FREQ
    /\ stepped_through_gate
    /\ ~at_goal_pos /\ ~currently_collided /\ ~cnstr_violation
    /\ rew = 100

\* ---- C24: the mask of the out-of-bound check ----------------------------------
\* The positions and angles of the state of the fidelity level.
PositionsAndAngles ==
    { i \in 1..state_dim(QUAD_TYPE) :
        X(QUAD_TYPE)[i] \in {"x", "y", "z", "phi", "theta", "psi"} }

\* C24: the out-of-bound check looks at the positions and angles only (1D: z;
\* 2D: x, z, theta; 3D: x, y, z, phi, theta, psi): with the check enabled a
\* state with one of them outside its bounds gives done, and a state with only
\* velocities or rates outside gives done by the collision or the completion
\* check or not at all.
C24_OutOfBoundMask ==
    op = "done" =>
        /\ done_on_out_of_bound /\ state_oob \cap PositionsAndAngles # {} => done
        /\ state_oob \cap PositionsAndAngles = {} =>
              (done <=> \/ DONE_ON_COLLISION /\ currently_collided
                        \/ DONE_ON_COMPLETION /\ task_completed)

\* Every velocity and rate of the 3D state outside the bounds, the check
\* enabled, and the episode not done.
C24_Witness ==
    /\ op = "done"
    /\ QUAD_TYPE = 3
    /\ done_on_out_of_bound
    /\ state_oob = {2, 4, 6, 10, 11, 12}
    /\ ~done

\* C26: a reset given initial_target_gate_id = k, 0 < k < NUM_GATES, that
\* returns has left current_gate = k and the vehicle at the pose of gate k - 1
\* of this reset with zero velocities, the initial state not randomized; given
\* 0 or no id, it has left current_gate = 0 and the vehicle at the initial
\* state of the configuration, randomized if RANDOMIZED_INIT.
C26_ResetAtGate ==
    [][op' = "reset" /\ raised' = "none" =>
          /\ kwargs' # << >> /\ 0 < kwargs'[1] /\ kwargs'[1] < NUM_GATES =>
                /\ current_gate' = kwargs'[1]
                /\ pyb_base' = [pose |-> <<"gates_pose", kwargs'[1] - 1>>,
                                vel |-> "zero",
                                randomized |-> FALSE]
          /\ kwargs' = << >> \/ kwargs' = <<0>> =>
                /\ current_gate' = 0
                /\ pyb_base' = [pose |-> <<"init_state", 0>>,
                                vel |-> "init_state",
                                randomized |-> RANDOMIZED_INIT]
      ]_vars

\* A reset given gate 1 of two has returned in an environment that randomizes
\* its initial state: the vehicle is at the pose of gate 0, not randomized.
C26_Witness ==
    /\ op = "reset"
    /\ raised = "none"
    /\ RANDOMIZED_INIT
    /\ NUM_GATES = 2
    /\ kwargs = <<1>>
    /\ current_gate = 1
    /\ pyb_base.pose = <<"gates_pose", 0>>
    /\ ~pyb_base.randomized

\* ---- C25: clipping of the action ----------------------------------------------
\* The action of the last call had an actuator outside the bounds.
ActionOutOfBounds ==
    \E i \in DOMAIN action :
        action[i] < action_space_low \/ action[i] > action_space_high

\* The action of the last call with every actuator brought to the nearer bound.
ActionInBounds ==
    [i \in DOMAIN action |->
        IF action[i] < action_space_low THEN action_space_low
        ELSE IF action[i] > action_space_high THEN action_space_high
        ELSE action[i]]

C22_StabilizationGoal ==
    LET g == TASK_INFO.stabilization_goal
        n == action_dim(QUAD_TYPE)
    IN  /\ TASK = "STABILIZATION" /\ QUAD_TYPE = 1 =>
               Len(g) >= 2 /\ X_GOAL.x = <<g[2], 0>>
        /\ TASK = "STABILIZATION" /\ QUAD_TYPE = 2 =>
               Len(g) >= 2 /\ X_GOAL.x = <<g[1], 0, g[2], 0, 0, 0>>
        /\ TASK = "STABILIZATION" /\ QUAD_TYPE = 3 =>
               Len(g) >= 3 /\ X_GOAL.x = <<g[1], 0, g[2], 0, g[3], 0, 0, 0, 0, 0, 0, 0>>
        /\ TASK = "STABILIZATION" => X_GOAL.rows = 0 /\ Len(X_GOAL.x) = state_dim(QUAD_TYPE)
        /\ DOMAIN U_GOAL = 1..n
        /\ \A i \in 1..n : n * U_GOAL[i] = MASS * GRAVITY_ACC

\* C22 witness: the 2D goal of the target (x, z) = (0.5, 1.0), with the hover
\* thrust of a mass of 3 split over the two actuators, as __init__ left them.
C22_Witness ==
    /\ op = "init"
    /\ TASK = "STABILIZATION"
    /\ QUAD_TYPE = 2
    /\ TASK_INFO.stabilization_goal = <<1, 2>>
    /\ X_GOAL.x = <<1, 0, 2, 0, 0, 0>>
    /\ MASS = 3
    /\ U_GOAL = <<588, 588>>

\* C23: for each fidelity level, the state derivative at the hover equilibrium
\* (every velocity, angle and rate of the state zero, whatever the position;
\* the input U_GOAL, the thrust MASS * GRAVITY_ACC split evenly over the
\* actuators) is zero in every component, velocities and accelerations.
AtHover ==
    /\ sym_args.U = U_GOAL
    /\ \A i \in DOMAIN sym_args.X : i \notin PositionSlots => sym_args.X[i] = 0

C21_CostZeroAtReference ==
    op = "cost_func" /\ sym_args.Xr = sym_args.X /\ sym_args.Ur = sym_args.U =>
        sym_value = << Num(0) >>

\* C21 witness: a cost of zero at a reference that is not the origin, under
\* weight matrices that are not symmetric, in 3D.
C21_Witness ==
    /\ op = "cost_func"
    /\ QUAD_TYPE = 3
    /\ sym_args.Xr = sym_args.X
    /\ sym_args.Ur = sym_args.U
    /\ sym_args.X = [i \in 1..12 |-> i]
    /\ sym_args.U = <<0 - 2, 1, 1, 1>>
    /\ sym_args.Q = [i \in 1..12 |-> [j \in 1..12 |-> i - 2 * j]]
    /\ sym_args.R = [i \in 1..4 |-> [j \in 1..4 |-> i - 2 * j]]
    /\ sym_value = << Num(0) >>

====
